---- MODULE Spec2Model ----
(***************************************************************************)
(* A model of LinkedInMultiProfileScraper (src/linkedin_scraper.py): the   *)
(* record extraction pipeline (extract_posts, extract_single_post,         *)
(* extract_post_data), the hashtag collector (extract_hashtags) and the    *)
(* scrape_profile driver that calls them.                                  *)
(*                                                                         *)
(* Text is a sequence of one-character strings, so that the regular        *)
(* expressions, str.strip, str.split and str.lower of the source are       *)
(* computed character by character.                                       *)
(***************************************************************************)
EXTENDS Integers, Sequences, FiniteSets, TLC

(***************************************************************************)
(* Characters and the str methods the source uses                          *)
(***************************************************************************)
UpperToLower ==
    [A |-> "a", B |-> "b", C |-> "c", D |-> "d", E |-> "e", F |-> "f",
     G |-> "g", H |-> "h", I |-> "i", J |-> "j", K |-> "k", L |-> "l",
     M |-> "m", N |-> "n", O |-> "o", P |-> "p", Q |-> "q", R |-> "r",
     S |-> "s", T |-> "t", U |-> "u", V |-> "v", W |-> "w", X |-> "x",
     Y |-> "y", Z |-> "z"]

UpperLetters == DOMAIN UpperToLower

LowerLetters == {UpperToLower[c] : c \in UpperLetters}

Digits == {"0", "1", "2", "3", "4", "5", "6", "7", "8", "9"}

\* the regex class \s and the characters str.strip / str.split treat as blank
Whitespace == {" ", "\n", "\t"}

\* the regex class [A-Za-z0-9_]
WordChars == LowerLetters \cup UpperLetters \cup Digits \cup {"_"}

\* the regex class [A-Za-z0-9_-]
LinkChars == WordChars \cup {"-"}

LowerChar(c) == IF c \in UpperLetters THEN UpperToLower[c] ELSE c

\* str.lower()
StrLower(s) == [i \in 1..Len(s) |-> LowerChar(s[i])]

RECURSIVE LStrip(_)
LStrip(s) ==
    IF s # <<>> /\ Head(s) \in Whitespace THEN LStrip(Tail(s)) ELSE s

RECURSIVE RStrip(_)
RStrip(s) ==
    IF s # <<>> /\ s[Len(s)] \in Whitespace
    THEN RStrip(SubSeq(s, 1, Len(s) - 1))
    ELSE s

\* str.strip()
Strip(s) == RStrip(LStrip(s))

\* len(s.split()): the number of maximal runs of non-blank characters
WordCount(s) ==
    Cardinality({i \in 1..Len(s) :
                    /\ s[i] \notin Whitespace
                    /\ (i = 1 \/ s[i - 1] \in Whitespace)})

\* sep.join(parts)
RECURSIVE Join(_, _)
Join(sep, parts) ==
    IF parts = <<>> THEN <<>>
    ELSE IF Len(parts) = 1 THEN parts[1]
    ELSE parts[1] \o sep \o Join(sep, Tail(parts))

\* the length of the run of characters of cls that starts at s[i], cut at max
RECURSIVE RunLen(_, _, _, _)
RunLen(s, i, cls, max) ==
    IF max = 0 \/ i > Len(s) \/ s[i] \notin cls THEN 0
    ELSE 1 + RunLen(s, i + 1, cls, max - 1)

\* the literal lit stands at s[i..]; ic is re.IGNORECASE
MatchesAt(s, i, lit, ic) ==
    /\ i + Len(lit) - 1 <= Len(s)
    /\ \A k \in 1..Len(lit) :
          IF ic THEN LowerChar(s[i + k - 1]) = LowerChar(lit[k])
          ELSE s[i + k - 1] = lit[k]

\* lit in s
Contains(lit, s) == \E i \in 1..(Len(s) + 1) : MatchesAt(s, i, lit, FALSE)

(***************************************************************************)
(* extract_hashtags                                                        *)
(***************************************************************************)
TagMinLen == 2

TagMaxLen == 60

\* re.findall of  lit([cls]{lo,hi})  from position i on: the captured groups,
\* leftmost first, each match greedy, the scan resuming after a match; ic is
\* re.IGNORECASE
RECURSIVE FindAll(_, _, _, _, _, _, _)
FindAll(s, i, lit, cls, ic, lo, hi) ==
    IF i > Len(s) THEN <<>>
    ELSE LET from == i + Len(lit)
             n == IF MatchesAt(s, i, lit, ic)
                  THEN RunLen(s, from, cls, hi)
                  ELSE 0
         IN  IF n >= lo
             THEN <<SubSeq(s, from, from + n - 1)>>
                      \o FindAll(s, from + n, lit, cls, ic, lo, hi)
             ELSE FindAll(s, i + 1, lit, cls, ic, lo, hi)

\* tag_pattern.findall(s) and the two link patterns: lit([cls]{2,60})
FindAllPrefixed(s, lit, cls, ic) ==
    FindAll(s, 1, lit, cls, ic, TagMinLen, TagMaxLen)

\* re.sub(r'(?<!\s)#', ' #', txt)
RECURSIVE SeparateHashes(_, _)
SeparateHashes(txt, i) ==
    IF i > Len(txt) THEN <<>>
    ELSE (IF txt[i] = "#" /\ (i = 1 \/ txt[i - 1] \notin Whitespace)
          THEN <<" ", "#">>
          ELSE <<txt[i]>>) \o SeparateHashes(txt, i + 1)

\* a key that keeps the casing: two spellings of one tag stay two tags
HashKeyCaseSensitive(candidate) == candidate

\* key = candidate.lower()
HashKey(candidate) == StrLower(candidate)

\* the body of the three "for match in ...findall(...)" loops: acc is
\* [tags, seen]; every match not yet seen is appended with its own casing
RECURSIVE AddMatches(_, _)
AddMatches(acc, matches) ==
    IF matches = <<>> THEN acc
    ELSE LET candidate == <<"#">> \o Head(matches)
             key == HashKey(candidate)
         IN  AddMatches(IF key \notin acc.seen
                        THEN [tags |-> Append(acc.tags, candidate),
                              seen |-> acc.seen \cup {key}]
                        ELSE acc,
                        Tail(matches))

\* for txt in texts: scan the visible hashtags of each text in turn
RECURSIVE ScanTexts(_, _)
ScanTexts(acc, texts) ==
    IF texts = <<>> THEN acc
    ELSE ScanTexts(
            AddMatches(acc, FindAllPrefixed(SeparateHashes(Head(texts), 1),
                                            <<"#">>, WordChars, FALSE)),
            Tail(texts))

HashtagLink == <<"/", "h", "a", "s", "h", "t", "a", "g", "/">>

EncodedHash == <<"%", "2", "3">>

\* the texts list of extract_hashtags: content_text, the extra texts and the
\* markup, each only when it is not empty (None and "" are both falsy; the
\* model writes both as <<>>)
HashtagTexts(content_text, html_text, extra_texts) ==
    (IF content_text # <<>> THEN <<content_text>> ELSE <<>>)
        \o SelectSeq(extra_texts, LAMBDA t : t # <<>>)
        \o (IF html_text # <<>> THEN <<html_text>> ELSE <<>>)

extract_hashtags(content_text, html_text, extra_texts) ==
    LET visible == ScanTexts([tags |-> <<>>, seen |-> {}],
                             HashtagTexts(content_text, html_text, extra_texts))
        linked == IF html_text # <<>>
                  THEN AddMatches(visible,
                                  FindAllPrefixed(html_text, HashtagLink,
                                                  LinkChars, TRUE))
                  ELSE visible
        encoded == IF html_text # <<>>
                   THEN AddMatches(linked,
                                   FindAllPrefixed(html_text, EncodedHash,
                                                   LinkChars, TRUE))
                   ELSE linked
    IN  encoded.tags

(***************************************************************************)
(* The fingerprint of a post element (extract_posts, the dedup loop)       *)
(***************************************************************************)
SigLimit == 200

SigHead == 150

SigTail == 50

SigJoint == <<"|", "|", "|">>

Unknown == <<"u", "n", "k", "n", "o", "w", "n">>

Today == <<"t", "o", "d", "a", "y">>

Yesterday == <<"y", "e", "s", "t", "e", "r", "d", "a", "y">>

\* the characters of the class [hdwmo], under re.IGNORECASE
TimeUnitChars == {"h", "d", "w", "m", "o"}

ContentSignatureHeadOnly(post_text) ==
    IF Len(post_text) > SigLimit THEN SubSeq(post_text, 1, SigHead)
    ELSE post_text

\* post_text[:150] + "|||" + post_text[-50:] if len(post_text) > 200 else post_text
ContentSignature(post_text) ==
    IF Len(post_text) > SigLimit
    THEN SubSeq(post_text, 1, SigHead) \o SigJoint
            \o SubSeq(post_text, Len(post_text) - SigTail + 1, Len(post_text))
    ELSE post_text

\* what (\d+[hdwmo]|today|yesterday) matches at position i, <<>> when nothing
DateTokenAt(s, i) ==
    LET d == RunLen(s, i, Digits, Len(s))
    IN  IF d >= 1 /\ i + d <= Len(s) /\ LowerChar(s[i + d]) \in TimeUnitChars
        THEN SubSeq(s, i, i + d)
        ELSE IF MatchesAt(s, i, Today, TRUE)
        THEN SubSeq(s, i, i + Len(Today) - 1)
        ELSE IF MatchesAt(s, i, Yesterday, TRUE)
        THEN SubSeq(s, i, i + Len(Yesterday) - 1)
        ELSE <<>>

\* date_match.group(1) if date_match else "unknown", for the re.search of
\* (\d+[hdwmo]|today|yesterday): the leftmost match
DateSig(post_text) ==
    LET at == {i \in 1..Len(post_text) : DateTokenAt(post_text, i) # <<>>}
    IN  IF at = {} THEN Unknown
        ELSE DateTokenAt(post_text, CHOOSE i \in at : \A j \in at : i <= j)

\* y_pos: elem.location.get('y', 0), and 0 when reading the location raises
YPos(elem) == IF elem.loc_raises THEN 0 ELSE elem.y

\* fingerprint = (content_signature, date_sig, y_pos)
Fingerprint(elem) ==
    LET post_text == Strip(elem.text)
    IN  <<ContentSignature(post_text), DateSig(post_text), YPos(elem)>>

(***************************************************************************)
(* The three sites that build a record                                     *)
(***************************************************************************)
NA == <<"N", "/", "A">>

NoneStr == <<"N", "o", "n", "e">>

\* s.split(c) for a one-character separator
RECURSIVE SplitOn(_, _)
SplitOn(s, c) ==
    LET at == {i \in 1..Len(s) : s[i] = c}
    IN  IF at = {} THEN <<s>>
        ELSE LET i == CHOOSE k \in at : \A j \in at : k <= j
             IN  <<SubSeq(s, 1, i - 1)>> \o SplitOn(SubSeq(s, i + 1, Len(s)), c)

\* the matches of  #[A-Za-z0-9_]+  (and of #\w+) in s, each with its '#'
HashWords(s) ==
    LET found == FindAll(s, 1, <<"#">>, WordChars, FALSE, 1, Len(s))
    IN  [k \in 1..Len(found) |-> <<"#">> \o found[k]]

\* a total that leaves the shares out
TotalWithoutShares(reactions, comments, shares) == reactions + comments

\* total_engagement = reactions + comments + shares
TotalEngagement(reactions, comments, shares) == reactions + comments + shares

\* the decimal digits of a natural number, as str() and the f-strings write
\* them
DigitChars == <<"0", "1", "2", "3", "4", "5", "6", "7", "8", "9">>

RECURSIVE NatToStr(_)
NatToStr(n) ==
    IF n < 10 THEN <<DigitChars[n + 1]>>
    ELSE Append(NatToStr(n \div 10), DigitChars[(n % 10) + 1])

RECURSIVE Pow10(_)
Pow10(places) == IF places = 0 THEN 1 ELSE 10 * Pow10(places - 1)

\* the integer nearest to num / den, the even one of two equally near
RoundDiv(num, den) ==
    LET q == num \div den
        r == num % den
    IN  IF 2 * r < den THEN q
        ELSE IF 2 * r > den THEN q + 1
        ELSE IF q % 2 = 0 THEN q ELSE q + 1

RECURSIVE ZeroPad(_, _)
ZeroPad(digits, width) ==
    IF Len(digits) >= width THEN digits ELSE ZeroPad(<<"0">> \o digits, width)

\* f"{num / den:.<places>f}" for num >= 0 and den > 0
FormatFixed(num, den, places) ==
    LET scaled == RoundDiv(num * Pow10(places), den)
    IN  NatToStr(scaled \div Pow10(places)) \o <<".">>
            \o ZeroPad(NatToStr(scaled % Pow10(places)), places)

Percent == <<"%">>

Zero == <<"0">>

\* profile_data['profile_followers']: the string "N/A" or the int found on
\* the page
FollowersNA == [is_int |-> FALSE, value |-> 0]

FollowersInt(n) == [is_int |-> TRUE, value |-> n]

RatePlaces == 2

RatioPlaces == 3

PercentScale == 100

\* a rate that takes an unknown follower count for one follower
EngagementRateUnguarded(total_engagement, followers) ==
    FormatFixed(total_engagement * PercentScale,
                IF followers.is_int /\ followers.value > 0 THEN followers.value
                ELSE 1, RatePlaces) \o Percent

\* engagement_rate and its f"{engagement_rate:.2f}%"
EngagementRate(total_engagement, followers) ==
    IF followers.is_int /\ followers.value > 0
    THEN FormatFixed(total_engagement * PercentScale, followers.value,
                     RatePlaces) \o Percent
    ELSE FormatFixed(0, 1, RatePlaces) \o Percent

\* a ratio written with two decimals
CommentReactionRatioShort(comments, reactions) ==
    IF reactions > 0 THEN FormatFixed(comments, reactions, 2) ELSE Zero

\* f"{(comments/reactions):.3f}" if reactions > 0 else "0"
CommentReactionRatio(comments, reactions) ==
    IF reactions > 0 THEN FormatFixed(comments, reactions, RatioPlaces) ELSE Zero

\* extract_single_post: f"{(shares/reactions):.3f}" if reactions > 0 else "0"
ShareReactionRatio(shares, reactions) ==
    IF reactions > 0 THEN FormatFixed(shares, reactions, RatioPlaces) ELSE Zero

\* extract_post_data: f"{(total_shares/total_reactions*100):.2f}%" if
\* total_reactions > 0 else "0%"
SharePercent(total_shares, total_reactions) ==
    IF total_reactions > 0
    THEN FormatFixed(total_shares * PercentScale, total_reactions, RatePlaces)
            \o Percent
    ELSE Zero \o Percent

ShortTextLen == 10

HeaderLines == 3

MinContentLen == 10

MinWords == 3

\* the text of the first text block of the element that is not blank, "N/A"
\* when no selector finds one
SelectedText(post_elem) ==
    IF Strip(post_elem.body) # <<>> THEN Strip(post_elem.body) ELSE NA

\* content_html: the innerHTML of that text block, None (<<>>) without one
ContentHtml(post_elem) ==
    IF Strip(post_elem.body) # <<>> THEN post_elem.html ELSE <<>>

\* post_elem.text.strip() without its first three lines when it has more
VisibleText(post_elem) ==
    LET all == Strip(post_elem.text)
        lines == SplitOn(all, "\n")
    IN  IF Len(lines) > HeaderLines
        THEN Join(<<"\n">>, SubSeq(lines, HeaderLines + 1, Len(lines)))
        ELSE all

\* content_text after the selectors and the "if still no text" fallback
ContentText(post_elem) ==
    LET selected == SelectedText(post_elem)
    IN  IF selected = NA \/ Len(selected) < ShortTextLen
        THEN (IF post_elem.text_raises THEN selected ELSE VisibleText(post_elem))
        ELSE selected

\* the VALIDATION block of extract_single_post: the record is returned
ValidContent(content_text, word_count) ==
    /\ ~(content_text = NA \/ Len(Strip(content_text)) < MinContentLen)
    /\ ~(word_count < MinWords)

\* reactions, comments, shares: each block reads post_elem.text first, and
\* leaves the count at 0 when that raises; found is what its methods find
CountOf(post_elem, found) == IF post_elem.text_raises THEN 0 ELSE found

Video == <<"V", "i", "d", "e", "o">>

Image == <<"I", "m", "a", "g", "e">>

TextOnly == <<"T", "e", "x", "t", " ", "O", "n", "l", "y">>

No == <<"N", "o">>

Yes == <<"Y", "e", "s">>

\* a classifier that looks at the image flag first
ContentTypeImageFirst(has_video, has_image) ==
    IF has_image THEN Image ELSE IF has_video THEN Video ELSE TextOnly

\* content_type = "Video" if has_video else "Image" if has_image else "Text Only"
ContentType(has_video, has_image) ==
    IF has_video THEN Video ELSE IF has_image THEN Image ELSE TextOnly

\* detect_content_type, on the text str(post.get('content', {})) gives
detect_content_type(content) ==
    LET content_str == StrLower(content)
    IN  IF Contains(<<"v", "i", "d", "e", "o">>, content_str) THEN Video
        ELSE IF Contains(<<"d", "o", "c", "u", "m", "e", "n", "t">>, content_str)
        THEN <<"D", "o", "c", "u", "m", "e", "n", "t", "/", "C", "a", "r", "o",
               "u", "s", "e", "l">>
        ELSE IF Contains(<<"a", "r", "t", "i", "c", "l", "e">>, content_str)
        THEN <<"A", "r", "t", "i", "c", "l", "e", "/", "L", "i", "n", "k">>
        ELSE IF Contains(<<"i", "m", "a", "g", "e">>, content_str) THEN Image
        ELSE IF Contains(<<"p", "o", "l", "l">>, content_str)
        THEN <<"P", "o", "l", "l">>
        ELSE TextOnly

\* ','.join(hashtags) if hashtags else 'None', with the separator of the site
HashtagsStr(sep, hashtags) ==
    IF hashtags # <<>> THEN Join(sep, hashtags) ELSE NoneStr

\* extract_single_post: <<post_data>>, or <<>> for None (validation rejects
\* the content, or an exception is caught by the outer try)
extract_single_post(post_elem, profile_data, position) ==
    LET content_text == ContentText(post_elem)
        content_html == ContentHtml(post_elem)
        content_url == post_elem.content_url
        hashtags == extract_hashtags(content_text, content_html,
                                     IF content_url # <<>> /\ content_url # NA
                                     THEN <<content_url>> ELSE <<>>)
        word_count == IF content_text # NA THEN WordCount(content_text) ELSE 0
        reactions == CountOf(post_elem, post_elem.reactions)
        comments == CountOf(post_elem, post_elem.comments)
        shares == CountOf(post_elem, post_elem.shares)
        post_data ==
            [Profile_Followers |-> profile_data.profile_followers,
             Post_Position |-> position,
             Post_Content |-> content_text,
             Post_Word_Count |-> word_count,
             Content_Type |-> ContentType(post_elem.has_video, post_elem.has_image),
             Has_Document |-> No,
             Hashtags |-> HashtagsStr(<<",">>, hashtags),
             Hashtag_Count |-> Len(hashtags),
             Post_Reactions |-> reactions,
             Post_Comments |-> comments,
             Post_Shares |-> shares,
             Total_Engagement |-> TotalEngagement(reactions, comments, shares),
             Engagement_Rate |->
                 EngagementRate(TotalEngagement(reactions, comments, shares),
                                profile_data.profile_followers),
             Comment_Reaction_Ratio |-> CommentReactionRatio(comments, reactions),
             Share_Reaction_Ratio |-> ShareReactionRatio(shares, reactions)]
    IN  IF post_elem.find_raises THEN <<>>
        ELSE IF ValidContent(content_text, word_count) THEN <<post_data>>
        ELSE <<>>

Ago == <<"a", "g", "o">>

Week == <<"w", "e", "e", "k">>

Day == <<"d", "a", "y">>

\* 'ago' in line.lower() or 'week' in line.lower() or 'day' in line.lower()
IsDateLine(line) ==
    LET low == StrLower(line)
    IN  Contains(Ago, low) \/ Contains(Week, low) \/ Contains(Day, low)

\* the post_data dict of the page-text fallback of extract_posts
FallbackRecord(post_text, profile_data, position) ==
    LET hashtags == HashWords(post_text)
    IN  [Profile_Followers |-> profile_data.profile_followers,
         Post_Position |-> position,
         Post_Content |-> post_text,
         Post_Word_Count |-> WordCount(post_text),
         Content_Type |-> TextOnly,
         Has_Document |-> No,
         Hashtags |-> HashtagsStr(<<",">>, hashtags),
         Hashtag_Count |-> Len(hashtags),
         Post_Reactions |-> 0,
         Post_Comments |-> 0,
         Post_Shares |-> 0,
         Total_Engagement |-> 0,
         Engagement_Rate |-> <<"0", ".", "0", "0", "%">>,
         Comment_Reaction_Ratio |-> <<"0">>,
         Share_Reaction_Ratio |-> <<"0", "%">>]

\* the "for i, line in enumerate(lines)" loop of the fallback, from the line
\* at (1-based) index i on: the records it appends, in order
RECURSIVE FallbackLoop(_, _, _, _, _)
FallbackLoop(lines, profile_data, i, post_count, max_posts) ==
    IF i > Len(lines) THEN <<>>
    ELSE IF IsDateLine(lines[i]) /\ i > 1
    THEN <<FallbackRecord(lines[i - 1], profile_data, post_count + 1)>>
            \o (IF post_count + 1 >= max_posts THEN <<>>
                ELSE FallbackLoop(lines, profile_data, i + 1, post_count + 1,
                                  max_posts))
    ELSE FallbackLoop(lines, profile_data, i + 1, post_count, max_posts)

\* extract_post_data: the combined_data dict built from a platform post object
extract_post_data(post, profile_data, position) ==
    LET content_text ==
            IF post.commentary_is_dict THEN post.commentary
            ELSE IF post.commentary # <<>> THEN post.commentary ELSE NA
        hashtags == HashWords(content_text)
    IN  [Profile_Followers |-> profile_data.profile_followers,
         Post_Position |-> position,
         Post_Content |-> content_text,
         Post_Word_Count |-> IF content_text # NA THEN WordCount(content_text) ELSE 0,
         Content_Type |-> detect_content_type(post.content),
         Has_Document |->
             IF Contains(<<"d", "o", "c", "u", "m", "e", "n", "t">>,
                         StrLower(post.content))
             THEN Yes ELSE No,
         Hashtags |-> HashtagsStr(<<",", " ">>, hashtags),
         Hashtag_Count |-> Len(hashtags),
         Post_Reactions |-> post.numLikes,
         Post_Comments |-> post.numComments,
         Post_Shares |-> post.numShares,
         Total_Engagement |-> TotalEngagement(post.numLikes, post.numComments,
                                              post.numShares),
         Engagement_Rate |->
             EngagementRate(TotalEngagement(post.numLikes, post.numComments,
                                            post.numShares),
                            profile_data.profile_followers),
         Comment_Reaction_Ratio |->
             CommentReactionRatio(post.numComments, post.numLikes),
         Share_Reaction_Ratio |-> SharePercent(post.numShares, post.numLikes)]

(***************************************************************************)
(* The inputs: what the browser shows                                      *)
(***************************************************************************)
\* the longest element list a page returns
MaxElements == 2

\* the largest max_posts a caller passes
MaxPosts == 3

TextA == <<"a", "a", " ", "b", "b", " ", "#", "a", "i", " ", "#", "A", "I">>

TextB == <<"2", "d", " ", "n", "e", "w", " ", "p", "o", "s", "t", " ", "#", "m", "l">>

TextOk == <<"o", "k">>

LinkAi == <<"/", "h", "a", "s", "h", "t", "a", "g", "/", "a", "i">>

\* a post element as the calls of the source see it: elem.text (or that it
\* raises), elem.location, the first non-blank text block with its innerHTML,
\* the media link, the three counts, and whether find_elements raises
Element(text, text_raises, y, loc_raises, body, html, content_url, find_raises, reactions, comments, shares) ==
    [text |-> text, text_raises |-> text_raises, y |-> y,
     loc_raises |-> loc_raises, body |-> body, html |-> html,
     content_url |-> content_url, find_raises |-> find_raises,
     reactions |-> reactions, comments |-> comments, shares |-> shares,
     has_image |-> FALSE, has_video |-> FALSE, has_document |-> FALSE]

\* the element with what its media lookups find: an img, a video, a link to
\* a document
WithMedia(elem, has_image, has_video, has_document) ==
    [elem EXCEPT !.has_image = has_image, !.has_video = has_video,
                 !.has_document = has_document]

PostA ==
    WithMedia(Element(TextA, FALSE, 0, FALSE, TextA, LinkAi, <<>>, FALSE, 100, 10, 5),
              TRUE, FALSE, TRUE)

PostALower == Element(TextA, FALSE, 100, FALSE, TextA, LinkAi, <<>>, FALSE, 100, 10, 5)

PostB ==
    WithMedia(Element(TextB, FALSE, 0, TRUE, <<>>, <<>>, <<>>, FALSE, 0, 0, 0),
              TRUE, TRUE, FALSE)

PostOk == Element(TextOk, FALSE, 0, FALSE, TextOk, <<>>, <<>>, FALSE, 1, 0, 0)

PostStale == Element(<<>>, TRUE, 0, TRUE, <<>>, <<>>, <<>>, TRUE, 0, 0, 0)

PageElements == {PostA, PostALower, PostB, PostOk, PostStale}

RECURSIVE SeqsUpTo(_, _)
SeqsUpTo(S, n) ==
    IF n = 0 THEN {<<>>}
    ELSE LET shorter == SeqsUpTo(S, n - 1)
         IN  shorter \cup {Append(q, x) : q \in shorter, x \in S}

\* what find_elements returns for the best selector
Pages == SeqsUpTo(PageElements, MaxElements)

\* what the body element's text is, when the fallback reads it
PageTexts ==
    {<<"a", "a", " ", "b", "b", " ", "#", "a", "i", " ", "#", "A", "I", "\n",
       "2", " ", "d", "a", "y", "s", " ", "a", "g", "o">>,
     <<"o", "k", "\n", "1", " ", "w", "e", "e", "k", " ", "a", "g", "o", "\n",
       "3", " ", "d", "a", "y", "s", " ", "a", "g", "o">>,
     <<"h", "e", "l", "l", "o">>}

\* what extract_profile_info finds for the follower count: nothing ("N/A")
\* or a number
PageFollowers == {FollowersNA, FollowersInt(1000)}

\* the follower counts a profile_data can carry: "N/A", zero, a negative
\* number, positive numbers
MetricProfiles ==
    {[profile_type |-> "Personal", profile_followers |-> followers] :
        followers \in {FollowersNA, FollowersInt(0), FollowersInt(0 - 5),
                       FollowersInt(3), FollowersInt(7), FollowersInt(1000)}}

\* str(post.get('content', {})) of the post objects: no content, and the
\* media kinds alone and together
PostContents ==
    {<<"{", "}">>,
     <<"I", "m", "a", "g", "e">>,
     <<"v", "i", "d", "e", "o", " ", "i", "m", "a", "g", "e">>,
     <<"d", "o", "c", "u", "m", "e", "n", "t">>,
     <<"i", "m", "a", "g", "e", " ", "d", "o", "c", "u", "m", "e", "n", "t">>,
     <<"a", "r", "t", "i", "c", "l", "e">>,
     <<"p", "o", "l", "l">>}

\* the platform post objects handed to extract_post_data
Posts ==
    {[commentary_is_dict |-> dict, commentary |-> commentary, content |-> content,
      numLikes |-> counts[1], numComments |-> counts[2], numShares |-> counts[3]] :
        dict \in BOOLEAN,
        commentary \in {<<"#", "a", "i", " ", "#", "A", "I", " ", "d", "o", "n", "e">>,
                        <<>>, TextOk},
        content \in PostContents,
        counts \in {<<100, 10, 5>>, <<0, 0, 0>>, <<0, 2, 3>>, <<1, 2, 3>>}}

(***************************************************************************)
(* State                                                                   *)
(***************************************************************************)
VARIABLES
    pc,                 \* where the scrape_profile call stands
    all_data,           \* self.all_data
    accepted_fps,       \* for each record of all_data, the fingerprint of the
                        \* element it was built from (<<>>: none was computed)
    is_company,         \* scrape_profile: is_company
    profile_data,       \* scrape_profile: profile_data
    max_posts,          \* scrape_profile / extract_posts: max_posts
    pass,               \* which extract_posts call of scrape_profile runs
    elements,           \* extract_posts: the list find_elements returned
    k,                  \* extract_posts: the index of the dedup loop
    unique_posts,       \* extract_posts: unique_posts
    seen_fingerprints,  \* extract_posts: seen_fingerprints
    post_elements,      \* extract_posts: post_elements after the truncation
    idx,                \* extract_posts: idx of the per-element loop
    posts_extracted,    \* extract_posts: posts_extracted
    result,             \* what scrape_profile returned
    combined_data,      \* what the last extract_post_data call returned, until
                        \* another call starts (<<>>: nothing)
    h_pc,               \* extract_hashtags called alone: its position,
    h_args,             \*   its arguments
    h_tags,             \*   and the list it returned
    b_pc,               \* extract_single_post called alone: its position,
    b_args,             \*   its arguments
    b_post_data,        \*   and what it returned (<<>>: None)
    d_pc,               \* convert_relative_date_to_actual called alone: its
                        \*   position,
    d_args,             \*   its argument and the instant datetime.now() gives
    d_result,           \*   and the string it returned
    m_pc,               \* where the scrape_multiple_profiles call stands
    profile_list,       \* scrape_multiple_profiles: profile_list
    m_max_posts,        \* scrape_multiple_profiles: max_posts
    m_idx,              \* scrape_multiple_profiles: idx of its loop
    success_count,      \* scrape_multiple_profiles: success_count
    failed_profiles,    \* scrape_multiple_profiles: failed_profiles
    m_result            \* what scrape_multiple_profiles returned

svars == <<pc, all_data, accepted_fps, is_company, profile_data, max_posts,
           pass, elements, k, unique_posts, seen_fingerprints, post_elements,
           idx, posts_extracted, result, combined_data>>

hvars == <<h_pc, h_args, h_tags>>

\* the variables of the functions that are called alone
bvars == <<b_pc, b_args, b_post_data>>

dvars == <<d_pc, d_args, d_result>>

\* the variables of scrape_multiple_profiles
mvars == <<m_pc, profile_list, m_max_posts, m_idx, success_count, failed_profiles, m_result>>

pure_vars == <<hvars, bvars, dvars, mvars>>

vars == <<svars, pure_vars>>

\* __init__ (self.all_data = []), no call running
ScraperInit ==
    /\ pc = "idle"
    /\ all_data = <<>>
    /\ accepted_fps = <<>>
    /\ is_company = FALSE
    /\ profile_data = [profile_type |-> "Personal",
                       profile_followers |-> FollowersNA]
    /\ max_posts = 0
    /\ pass = 0
    /\ elements = <<>>
    /\ k = 0
    /\ unique_posts = <<>>
    /\ seen_fingerprints = {}
    /\ post_elements = <<>>
    /\ idx = 0
    /\ posts_extracted = 0
    /\ result = "none"
    /\ combined_data = <<>>

HashtagsIdle ==
    /\ h_pc = "off"
    /\ h_args = [content_text |-> <<>>, html_text |-> <<>>, extra_texts |-> <<>>]
    /\ h_tags = <<>>

BuilderIdle ==
    /\ b_pc = "off"
    /\ b_args = [post_elem |-> PostOk,
                 profile_data |-> [profile_type |-> "Personal",
                                   profile_followers |-> FollowersNA],
                 position |-> 0]
    /\ b_post_data = <<>>

DatesIdle ==
    /\ d_pc = "off"
    /\ d_args = [relative_date |-> [kind |-> "none", text |-> <<>>],
                 now |-> [day |-> 0, hour |-> 0], pads_year |-> FALSE]
    /\ d_result = <<>>

\* no scrape_multiple_profiles call running
ProfilesIdle ==
    /\ m_pc = "off"
    /\ profile_list = <<>>
    /\ m_max_posts = 0
    /\ m_idx = 0
    /\ success_count = 0
    /\ failed_profiles = <<>>
    /\ m_result = FALSE

Init == ScraperInit /\ HashtagsIdle /\ BuilderIdle /\ DatesIdle /\ ProfilesIdle

(***************************************************************************)
(* scrape_profile and extract_posts, one action per step                   *)
(***************************************************************************)
extract_vars == <<elements, k, unique_posts, seen_fingerprints, post_elements,
                  idx, posts_extracted>>

\* scrape_profile up to its first extract_posts call: the profile page is
\* opened, extract_profile_info returns profile_data; kinds are the values
\* of is_company the callers of the scenario pass
ScrapeProfileWith(kinds, limits) ==
    /\ pc = "idle"
    /\ \E company \in kinds, mp \in limits, followers \in PageFollowers :
          /\ is_company' = company
          /\ profile_data' =
                [profile_type |-> IF company THEN "Company" ELSE "Personal",
                 profile_followers |-> followers]
          /\ max_posts' = mp
    /\ pass' = 1
    /\ combined_data' = <<>>
    /\ pc' = "extract_posts"
    /\ UNCHANGED <<all_data, accepted_fps, extract_vars, result,
                   pure_vars>>

ScrapeProfileOf(kinds) == ScrapeProfileWith(kinds, 0..MaxPosts)

ScrapeProfile == ScrapeProfileOf(BOOLEAN)

\* extract_posts, from its entry to the dedup loop: the selector with the
\* most elements gives post_elements; pages are the lists the site can show
ExtractPostsFrom(pages) ==
    /\ pc = "extract_posts"
    /\ \E page \in pages : elements' = page
    /\ posts_extracted' = 0
    /\ unique_posts' = <<>>
    /\ seen_fingerprints' = {}
    /\ k' = 1
    /\ post_elements' = <<>>
    /\ idx' = 0
    /\ pc' = "dedup"
    /\ UNCHANGED <<all_data, accepted_fps, is_company, profile_data, max_posts,
                   pass, result, combined_data,
                   pure_vars>>

ExtractPostsBegin == ExtractPostsFrom(Pages)

\* a dedup step that drops the element whose fingerprint cannot be computed
DedupElemDropsFailures(unique, seen, elem) ==
    IF elem.text_raises THEN [unique_posts |-> unique, seen_fingerprints |-> seen]
    ELSE IF Fingerprint(elem) \notin seen
    THEN [unique_posts |-> Append(unique, elem),
          seen_fingerprints |-> seen \cup {Fingerprint(elem)}]
    ELSE [unique_posts |-> unique, seen_fingerprints |-> seen]

\* a dedup step that never records what it has seen
DedupElemForgets(unique, seen, elem) ==
    [unique_posts |-> Append(unique, elem), seen_fingerprints |-> seen]

\* the body of "for elem in post_elements": an element whose text cannot be
\* read is kept (the except branch), one whose fingerprint is new is kept and
\* its fingerprint recorded, any other is skipped
DedupElem(unique, seen, elem) ==
    IF elem.text_raises
    THEN [unique_posts |-> Append(unique, elem), seen_fingerprints |-> seen]
    ELSE IF Fingerprint(elem) \notin seen
    THEN [unique_posts |-> Append(unique, elem),
          seen_fingerprints |-> seen \cup {Fingerprint(elem)}]
    ELSE [unique_posts |-> unique, seen_fingerprints |-> seen]

DedupStep ==
    /\ pc = "dedup"
    /\ k <= Len(elements)
    /\ LET after == DedupElem(unique_posts, seen_fingerprints, elements[k])
       IN  /\ unique_posts' = after.unique_posts
           /\ seen_fingerprints' = after.seen_fingerprints
    /\ k' = k + 1
    /\ UNCHANGED <<pc, all_data, accepted_fps, is_company, profile_data,
                   max_posts, pass, elements, post_elements, idx,
                   posts_extracted, result, combined_data,
                   pure_vars>>

\* a truncation applied to the list before the duplicates are removed
TruncateRaw(unique, found, n) ==
    SubSeq(found, 1, IF n < Len(unique) THEN n ELSE Len(unique))

\* unique_posts[:max_posts], for max_posts >= 0
Truncate(unique, found, n) ==
    SubSeq(unique, 1, IF n < Len(unique) THEN n ELSE Len(unique))

\* the end of the dedup loop: post_elements = unique_posts[:max_posts], then
\* the fallback when nothing is left and the per-element loop otherwise
DedupDone ==
    /\ pc = "dedup"
    /\ k > Len(elements)
    /\ post_elements' = Truncate(unique_posts, elements, max_posts)
    /\ idx' = 1
    /\ pc' = IF post_elements' = <<>> THEN "fallback" ELSE "posts"
    /\ UNCHANGED <<all_data, accepted_fps, is_company, profile_data, max_posts,
                   pass, elements, k, unique_posts, seen_fingerprints,
                   posts_extracted, result, combined_data,
                   pure_vars>>

\* the fingerprint an appended record stands for
SourceFingerprint(elem) ==
    IF elem.text_raises THEN <<>> ELSE Fingerprint(elem)

\* a loop that puts the new record in front of the collection
ExtractPostPrepends ==
    /\ pc = "posts"
    /\ idx <= Len(post_elements)
    /\ LET post_data == extract_single_post(post_elements[idx], profile_data, idx)
       IN  /\ all_data' = post_data \o all_data
           /\ accepted_fps' =
                 [n \in 1..Len(post_data) |->
                     IF post_elements[idx].text_raises THEN <<>>
                     ELSE Fingerprint(post_elements[idx])] \o accepted_fps
           /\ posts_extracted' = posts_extracted + Len(post_data)
    /\ idx' = idx + 1
    /\ UNCHANGED <<pc, is_company, profile_data, max_posts, pass, elements, k,
                   unique_posts, seen_fingerprints, post_elements, result,
                   combined_data, pure_vars>>

\* the loop without its own try/except and None test: a fragment that gives
\* no record ends extract_posts through the outer handler
ExtractPostAbortsOnFailure ==
    /\ pc = "posts"
    /\ idx <= Len(post_elements)
    /\ LET post_data == extract_single_post(post_elements[idx], profile_data, idx)
       IN  /\ all_data' = all_data \o post_data
           /\ accepted_fps' =
                 accepted_fps \o [n \in 1..Len(post_data) |->
                                     IF post_elements[idx].text_raises THEN <<>>
                                     ELSE Fingerprint(post_elements[idx])]
           /\ posts_extracted' = IF post_data = <<>> THEN 0
                                 ELSE posts_extracted + 1
           /\ pc' = IF post_data = <<>> THEN "returned" ELSE pc
    /\ idx' = idx + 1
    /\ UNCHANGED <<is_company, profile_data, max_posts, pass, elements, k,
                   unique_posts, seen_fingerprints, post_elements, result,
                   combined_data, pure_vars>>

\* one turn of "for idx, post_elem in enumerate(post_elements, 1)": the record
\* of extract_single_post is appended, None and a caught exception append
\* nothing
ExtractPost ==
    /\ pc = "posts"
    /\ idx <= Len(post_elements)
    /\ LET post_data == extract_single_post(post_elements[idx], profile_data, idx)
       IN  /\ all_data' = all_data \o post_data
           /\ accepted_fps' =
                 accepted_fps \o [n \in 1..Len(post_data) |->
                                     SourceFingerprint(post_elements[idx])]
           /\ posts_extracted' = posts_extracted + Len(post_data)
    /\ idx' = idx + 1
    /\ UNCHANGED <<pc, is_company, profile_data, max_posts, pass, elements, k,
                   unique_posts, seen_fingerprints, post_elements, result,
                   combined_data,
                   pure_vars>>

\* return posts_extracted, after the per-element loop
ExtractPostsReturn ==
    /\ pc = "posts"
    /\ idx > Len(post_elements)
    /\ pc' = "returned"
    /\ UNCHANGED <<all_data, accepted_fps, is_company, profile_data, max_posts,
                   pass, extract_vars, result, combined_data,
                   pure_vars>>

\* the page-text fallback, whole: every line that looks like a date makes a
\* record of the line before it
Fallback ==
    /\ pc = "fallback"
    /\ \E page_text \in PageTexts :
          LET made == FallbackLoop(SplitOn(page_text, "\n"), profile_data, 1, 0,
                                   max_posts)
          IN  /\ all_data' = all_data \o made
              /\ accepted_fps' = accepted_fps \o [n \in 1..Len(made) |-> <<>>]
              /\ posts_extracted' = posts_extracted + Len(made)
    /\ pc' = "returned"
    /\ UNCHANGED <<is_company, profile_data, max_posts, pass, elements, k,
                   unique_posts, seen_fingerprints, post_elements, idx, result,
                   combined_data,
                   pure_vars>>

\* the fallback cannot read the body: the outer except returns 0
FallbackRaises ==
    /\ pc = "fallback"
    /\ posts_extracted' = 0
    /\ pc' = "returned"
    /\ UNCHANGED <<all_data, accepted_fps, is_company, profile_data, max_posts,
                   pass, elements, k, unique_posts, seen_fingerprints,
                   post_elements, idx, result, combined_data,
                   pure_vars>>

\* scrape_profile of a personal profile after its first extract_posts: the
\* activity page is scrolled and extract_posts is called again
SecondPass ==
    /\ pc = "returned"
    /\ ~is_company
    /\ pass = 1
    /\ pass' = 2
    /\ pc' = "extract_posts"
    /\ UNCHANGED <<all_data, accepted_fps, is_company, profile_data, max_posts,
                   extract_vars, result, combined_data,
                   pure_vars>>

\* return True
ScrapeProfileReturn ==
    /\ pc = "returned"
    /\ is_company \/ pass = 2
    /\ result' = "true"
    /\ pc' = "done"
    /\ UNCHANGED <<all_data, accepted_fps, is_company, profile_data, max_posts,
                   pass, extract_vars, combined_data,
                   pure_vars>>

\* an exception outside extract_posts (the browser, extract_profile_info):
\* the except of scrape_profile returns False
ScrapeProfileRaises ==
    /\ \/ pc = "idle"
       \/ pc = "returned" /\ ~is_company /\ pass = 1
    /\ result' = "false"
    /\ pc' = "done"
    /\ UNCHANGED <<all_data, accepted_fps, is_company, profile_data, max_posts,
                   pass, extract_vars, combined_data,
                   pure_vars>>

\* a call of extract_post_data on the scraper before it scrapes: the method
\* reads its arguments only, so one call shows all it can return
ExtractPostData ==
    /\ pc = "idle"
    /\ combined_data = <<>>
    /\ \E post \in Posts, data \in MetricProfiles, position \in 1..2 :
          combined_data' = <<extract_post_data(post, data, position)>>
    /\ UNCHANGED <<pc, all_data, accepted_fps, is_company, profile_data,
                   max_posts, pass, extract_vars, result,
                   pure_vars>>

Next ==
    \/ ScrapeProfile
    \/ ExtractPostsBegin
    \/ DedupStep
    \/ DedupDone
    \/ ExtractPost
    \/ ExtractPostsReturn
    \/ Fallback
    \/ FallbackRaises
    \/ SecondPass
    \/ ScrapeProfileReturn
    \/ ScrapeProfileRaises
    \/ ExtractPostData

Spec == Init /\ [][Next]_vars

(***************************************************************************)
(* scrape_profile on a company page: one extract_posts call, longer pages  *)
(***************************************************************************)
\* the longest element list of a company posts page
MaxCompanyElements == 3

CompanyPages == SeqsUpTo(PageElements, MaxCompanyElements)

ScrapeCompany == ScrapeProfileOf({TRUE})

ExtractCompanyPostsBegin == ExtractPostsFrom(CompanyPages)

NextCompany ==
    \/ ScrapeCompany
    \/ ExtractCompanyPostsBegin
    \/ DedupStep
    \/ DedupDone
    \/ ExtractPost
    \/ ExtractPostsReturn
    \/ Fallback
    \/ FallbackRaises
    \/ ScrapeProfileReturn

SpecCompany == Init /\ [][NextCompany]_vars

(***************************************************************************)
(* scrape_profile of a personal profile whose pages hold many posts        *)
(***************************************************************************)
FewPosts == 5

\* n fragments one below the other, all with the same valid text
Feed(n) ==
    [i \in 1..n |->
        Element(TextA, FALSE, 100 * i, FALSE, TextA, LinkAi, <<>>, FALSE, 100, 10, 5)]

\* the profile page and the activity page: empty, fewer posts than
\* FewPosts, as many, more
FeedPages == {<<>>, Feed(1), Feed(FewPosts), Feed(FewPosts + 1)}

ScrapePersonal == ScrapeProfileWith({FALSE}, {1, FewPosts, FewPosts + 1})

ExtractFeedPostsBegin == ExtractPostsFrom(FeedPages)

NextPersonal ==
    \/ ScrapePersonal
    \/ ExtractFeedPostsBegin
    \/ DedupStep
    \/ DedupDone
    \/ ExtractPost
    \/ ExtractPostsReturn
    \/ Fallback
    \/ FallbackRaises
    \/ SecondPass
    \/ ScrapeProfileReturn
    \/ ScrapeProfileRaises

SpecPersonal == Init /\ [][NextPersonal]_vars

(***************************************************************************)
(* extract_posts on fragments whose texts reach the signature limits       *)
(***************************************************************************)
Repeat(c, n) == [i \in 1..n |-> c]

Posted3w == <<"p", "o", "s", "t", "e", "d", " ", "3", "w", " ", "T", "o", "d", "a", "y">>

\* texts of 200 and 201 characters, texts of 250 characters that differ in
\* the middle, in the head or by a time token in the middle, a short text
\* with two time tokens, and the same after a blank
SigTexts ==
    {Repeat("a", SigLimit),
     Repeat("a", SigLimit + 1),
     Repeat("a", SigHead) \o Repeat("x", SigTail) \o Repeat("b", SigTail),
     Repeat("a", SigHead) \o Repeat("y", SigTail) \o Repeat("b", SigTail),
     <<"c">> \o Repeat("a", SigHead - 1) \o Repeat("x", SigTail)
        \o Repeat("b", SigTail),
     Repeat("a", SigHead) \o <<"2", "D">> \o Repeat("x", SigTail - 2)
        \o Repeat("b", SigTail),
     Posted3w,
     <<" ">> \o Posted3w}

SigElements ==
    {Element(text, FALSE, y, FALSE, TextOk, <<>>, <<>>, FALSE, 1, 0, 0) :
        text \in SigTexts, y \in {0, 100}}
        \cup {Element(Posted3w, FALSE, 100, TRUE, TextOk, <<>>, <<>>, FALSE, 1, 0, 0)}

SigPages == SeqsUpTo(SigElements, 2)

ExtractSigPostsBegin == ExtractPostsFrom(SigPages)

NextFingerprints ==
    \/ ScrapeCompany
    \/ ExtractSigPostsBegin
    \/ DedupStep
    \/ DedupDone
    \/ ExtractPost
    \/ ExtractPostsReturn
    \/ Fallback
    \/ FallbackRaises
    \/ ScrapeProfileReturn

SpecFingerprints == Init /\ [][NextFingerprints]_vars

(***************************************************************************)
(* scrape_multiple_profiles: scrape_profile called for each listed profile *)
(***************************************************************************)
\* the longest profile_list
MaxProfiles == 2

Company == <<"/", "c", "o", "m", "p", "a", "n", "y", "/">>

\* what the caller lists: a username and a company URL
ProfileNames == {<<"a", "n", "n">>, Company \o <<"x">>}

ProfileLists == SeqsUpTo(ProfileNames, MaxProfiles)

\* what find_elements returns on the pages of the listed profiles
ProfilePages == {<<>>, <<PostA>>, <<PostOk, PostB>>}

InitProfiles ==
    /\ ScraperInit
    /\ HashtagsIdle
    /\ BuilderIdle
    /\ DatesIdle
    /\ m_pc = "call"
    /\ profile_list \in ProfileLists
    /\ m_max_posts \in 1..2
    /\ m_idx = 0
    /\ success_count = 0
    /\ failed_profiles = <<>>
    /\ m_result = FALSE

\* scrape_multiple_profiles up to its loop
ScrapeMultipleProfiles ==
    /\ m_pc = "call"
    /\ success_count' = 0
    /\ failed_profiles' = <<>>
    /\ m_idx' = 1
    /\ m_pc' = "loop"
    /\ UNCHANGED <<profile_list, m_max_posts, m_result, svars, hvars, bvars, dvars>>

\* self.scrape_profile(username, max_posts=max_posts) is entered
ScrapeListedProfile ==
    /\ m_pc = "loop"
    /\ m_idx <= Len(profile_list)
    /\ ScrapeProfileOf({Contains(Company, profile_list[m_idx])})
    /\ max_posts' = m_max_posts

\* scrape_profile fails, before its first extract_posts call or between its
\* two calls
ListedProfileRaises ==
    /\ m_pc = "loop"
    /\ m_idx <= Len(profile_list)
    /\ ScrapeProfileRaises

ExtractProfilePostsBegin == ExtractPostsFrom(ProfilePages)

\* a loop that gives up at the first profile whose scrape returns False
ProfileDoneStopsOnFailure ==
    /\ m_pc = "loop"
    /\ pc = "done"
    /\ IF result = "true"
       THEN /\ success_count' = success_count + 1
            /\ m_idx' = m_idx + 1
            /\ UNCHANGED failed_profiles
       ELSE /\ failed_profiles' = Append(failed_profiles, profile_list[m_idx])
            /\ m_idx' = Len(profile_list) + 1
            /\ UNCHANGED success_count
    /\ pc' = "idle"
    /\ result' = "none"
    /\ UNCHANGED <<all_data, accepted_fps, is_company, profile_data, max_posts,
                   pass, extract_vars, combined_data, m_pc, profile_list,
                   m_max_posts, m_result, hvars, bvars, dvars>>

\* scrape_profile has returned: the body of the loop after the call
ProfileDone ==
    /\ m_pc = "loop"
    /\ pc = "done"
    /\ IF result = "true"
       THEN /\ success_count' = success_count + 1
            /\ UNCHANGED failed_profiles
       ELSE /\ failed_profiles' = Append(failed_profiles, profile_list[m_idx])
            /\ UNCHANGED success_count
    /\ m_idx' = m_idx + 1
    /\ pc' = "idle"
    /\ result' = "none"
    /\ UNCHANGED <<all_data, accepted_fps, is_company, profile_data, max_posts,
                   pass, extract_vars, combined_data, m_pc, profile_list,
                   m_max_posts, m_result, hvars, bvars, dvars>>

\* return success_count > 0
ScrapeMultipleProfilesReturn ==
    /\ m_pc = "loop"
    /\ m_idx > Len(profile_list)
    /\ pc = "idle"
    /\ m_result' = (success_count > 0)
    /\ m_pc' = "returned"
    /\ UNCHANGED <<profile_list, m_max_posts, m_idx, success_count,
                   failed_profiles, svars, hvars, bvars, dvars>>

NextProfiles ==
    \/ ScrapeMultipleProfiles
    \/ ScrapeListedProfile
    \/ ListedProfileRaises
    \/ ExtractProfilePostsBegin
    \/ DedupStep
    \/ DedupDone
    \/ ExtractPost
    \/ ExtractPostsReturn
    \/ Fallback
    \/ FallbackRaises
    \/ SecondPass
    \/ ScrapeProfileReturn
    \/ ProfileDone
    \/ ScrapeMultipleProfilesReturn

SpecProfiles == InitProfiles /\ [][NextProfiles]_vars

(***************************************************************************)
(* extract_hashtags called alone                                           *)
(***************************************************************************)
\* the longest primary text of the exhaustive inputs
MaxTextLen == 4

HashtagAlphabet == {"#", "a", "A", " "}

ILoveAi ==
    <<"I", " ", "l", "o", "v", "e", " ", "#", "a", "i", " ", "a", "n", "d",
      " ", "#", "A", "I">>

ContentSamples ==
    SeqsUpTo(HashtagAlphabet, MaxTextLen)
        \cup {ILoveAi, <<"#", "A", "I", "#", "M", "L">>}

HtmlSamples ==
    {<<>>,
     LinkAi,
     <<"%", "2", "3", "A", "A">>,
     <<"#", "a", "a", " ", "/", "H", "A", "S", "H", "T", "A", "G", "/", "A",
       "a", "%", "2", "3", "a", "A">>}

ExtraSamples ==
    {<<>>, <<<<"#", "A", "a">>>>, <<<<>>, <<"#", "a", "A">>, <<"#", "A", "I">>>>}

InitHashtags ==
    /\ ScraperInit
    /\ BuilderIdle
    /\ DatesIdle
    /\ ProfilesIdle
    /\ h_pc = "call"
    /\ h_args \in [content_text : ContentSamples, html_text : HtmlSamples,
                   extra_texts : ExtraSamples]
    /\ h_tags = <<>>

CallExtractHashtags ==
    /\ h_pc = "call"
    /\ h_tags' = extract_hashtags(h_args.content_text, h_args.html_text,
                                  h_args.extra_texts)
    /\ h_pc' = "returned"
    /\ UNCHANGED <<h_args, svars, bvars, dvars, mvars>>

NextHashtags == CallExtractHashtags

SpecHashtags == InitHashtags /\ [][NextHashtags]_vars

(***************************************************************************)
(* extract_single_post called alone, over a wide choice of elements        *)
(***************************************************************************)
TextProfileCard ==
    <<"A", "n", "n", "\n", "C", "E", "O", "\n", "2", "d", "\n", "w", "e", " ",
      "s", "h", "i", "p", " ", "i", "t", " ", "n", "o", "w">>

TextThreeShort == <<"a", " ", "b", " ", "c">>

TextTwoLong == <<"a", "a", "a", "a", "a", "a", "a", "a", "a", "a", " ", "b", "b">>

UrlWithFragment ==
    <<"h", "t", "t", "p", ":", "/", "/", "x", "/", "v", "#", "t", "o", "p">>

BuilderElements ==
    {Element(text, text_raises, 0, FALSE, body, html, content_url, find_raises,
             1, 2, 3) :
        text \in {TextA, TextB, TextOk, TextProfileCard, TextTwoLong, <<>>},
        text_raises \in BOOLEAN,
        body \in {<<>>, <<" ">>, NA, TextA, TextOk, TextThreeShort, TextTwoLong},
        html \in {<<>>, LinkAi},
        content_url \in {<<>>, UrlWithFragment},
        find_raises \in BOOLEAN}

\* elements of one valid text with every choice of media and of counts
MetricElements ==
    {WithMedia(Element(TextA, text_raises, 0, FALSE, TextA, <<>>, <<>>, FALSE,
                       reactions, comments, shares),
               has_image, has_video, has_document) :
        text_raises \in BOOLEAN,
        reactions \in {0, 3, 100}, comments \in {0, 1, 10}, shares \in {0, 2, 5},
        has_image \in BOOLEAN, has_video \in BOOLEAN, has_document \in BOOLEAN}

InitBuilder ==
    /\ ScraperInit
    /\ HashtagsIdle
    /\ DatesIdle
    /\ ProfilesIdle
    /\ b_pc = "call"
    /\ b_args \in
          [post_elem : BuilderElements,
           profile_data : {[profile_type |-> "Personal",
                            profile_followers |-> FollowersNA]},
           position : 1..2]
            \cup [post_elem : MetricElements, profile_data : MetricProfiles,
                  position : {1}]
    /\ b_post_data = <<>>

CallExtractSinglePost ==
    /\ b_pc = "call"
    /\ b_post_data' = extract_single_post(b_args.post_elem, b_args.profile_data,
                                          b_args.position)
    /\ b_pc' = "returned"
    /\ UNCHANGED <<b_args, svars, hvars, dvars, mvars>>

NextBuilder == CallExtractSinglePost

SpecBuilder == InitBuilder /\ [][NextBuilder]_vars

(***************************************************************************)
(* convert_relative_date_to_actual                                         *)
(***************************************************************************)
\* a character outside ASCII is written by its code point; str.lower()
\* turns U+00C4 into U+00E4
LowerText(s) ==
    [i \in 1..Len(s) |-> IF s[i] = "U+00C4" THEN "U+00E4" ELSE LowerChar(s[i])]

Edited == <<"e", "d", "i", "t", "e", "d">>

AgoText == <<"a", "g", "o">>

\* the two bullets as the source file spells them
GarbledBullet == <<"U+201A", "U+00C4", "U+00A2">>

GarbledDot == <<"U+00AC", "U+2211">>

\* s.replace(old, new), from position i on
RECURSIVE ReplaceFrom(_, _, _, _)
ReplaceFrom(s, i, old, new) ==
    IF i > Len(s) THEN <<>>
    ELSE IF MatchesAt(s, i, old, FALSE)
    THEN new \o ReplaceFrom(s, i + Len(old), old, new)
    ELSE <<s[i]>> \o ReplaceFrom(s, i + 1, old, new)

Replace(s, old, new) == ReplaceFrom(s, 1, old, new)

\* re.sub(r'\s+', ' ', s), from position i on
RECURSIVE CollapseFrom(_, _)
CollapseFrom(s, i) ==
    IF i > Len(s) THEN <<>>
    ELSE IF s[i] \notin Whitespace THEN <<s[i]>> \o CollapseFrom(s, i + 1)
    ELSE IF i > 1 /\ s[i - 1] \in Whitespace THEN CollapseFrom(s, i + 1)
    ELSE <<" ">> \o CollapseFrom(s, i + 1)

\* lower-cased, the noisy tokens taken out, whitespace collapsed and stripped
Cleaned(raw) ==
    LET lowered == LowerText(raw)
        no_edited == Replace(lowered, Edited, <<>>)
        no_ago == Replace(no_edited, AgoText, <<>>)
        no_bullet == Replace(no_ago, GarbledBullet, <<" ">>)
        no_dot == Replace(no_bullet, GarbledDot, <<" ">>)
    IN  Strip(CollapseFrom(no_dot, 1))

\* str.title(): a letter after a letter is lower-cased, any other letter
\* upper-cased
UpperChar(c) ==
    IF c \in LowerLetters THEN CHOOSE u \in UpperLetters : UpperToLower[u] = c
    ELSE c

Title(s) ==
    [i \in 1..Len(s) |->
        IF i > 1 /\ s[i - 1] \in (LowerLetters \cup UpperLetters)
        THEN LowerChar(s[i]) ELSE UpperChar(s[i])]

JustNow == <<"j", "u", "s", "t", " ", "n", "o", "w">>

NowText == <<"n", "o", "w">>

\* int(digits)
RECURSIVE StrToNat(_)
StrToNat(digits) ==
    IF digits = <<>> THEN 0
    ELSE LET last == digits[Len(digits)]
             d == CHOOSE v \in 0..9 : DigitChars[v + 1] = last
         IN  10 * StrToNat(SubSeq(digits, 1, Len(digits) - 1)) + d

IsDigits(str) ==
    /\ str # <<>>
    /\ \A i \in 1..Len(str) : str[i] \in Digits

\* the proleptic Gregorian calendar of datetime: days are counted from
\* 0001-01-01, which is day 1
IsLeap(year) == (year % 4 = 0 /\ year % 100 # 0) \/ year % 400 = 0

DaysInMonth(year, month) ==
    IF month = 2 THEN (IF IsLeap(year) THEN 29 ELSE 28)
    ELSE IF month \in {4, 6, 9, 11} THEN 30 ELSE 31

RECURSIVE DaysBeforeMonth(_, _)
DaysBeforeMonth(year, month) ==
    IF month = 1 THEN 0
    ELSE DaysBeforeMonth(year, month - 1) + DaysInMonth(year, month - 1)

DaysBeforeYear(year) ==
    LET y == year - 1
    IN  y * 365 + y \div 4 - y \div 100 + y \div 400

ToOrdinal(year, month, day) ==
    DaysBeforeYear(year) + DaysBeforeMonth(year, month) + day

YearOf(ordinal) ==
    LET n == ordinal - 1
        n400 == n \div 146097
        r400 == n % 146097
        n100 == r400 \div 36524
        r100 == r400 % 36524
        n4 == r100 \div 1461
        r4 == r100 % 1461
        n1 == r4 \div 365
        year == n400 * 400 + n100 * 100 + n4 * 4 + n1 + 1
    IN  IF n1 = 4 \/ n100 = 4 THEN year - 1 ELSE year

FromOrdinal(ordinal) ==
    LET year == YearOf(ordinal)
        rest == ordinal - DaysBeforeYear(year)
        month == CHOOSE m \in 1..12 :
                    /\ DaysBeforeMonth(year, m) < rest
                    /\ rest <= DaysBeforeMonth(year, m) + DaysInMonth(year, m)
    IN  [year |-> year, month |-> month,
         day |-> rest - DaysBeforeMonth(year, month)]

MinYear == 1

YearWidth == 4

\* strftime('%Y-%m-%d') of a date; the C library decides whether a year
\* below 1000 is padded with zeros (pads_year) or not
FormatDate(ordinal, pads_year) ==
    LET date == FromOrdinal(ordinal)
        year == NatToStr(date.year)
    IN  (IF pads_year THEN ZeroPad(year, YearWidth) ELSE year)
            \o <<"-">> \o ZeroPad(NatToStr(date.month), 2)
            \o <<"-">> \o ZeroPad(NatToStr(date.day), 2)

HoursPerDay == 24

DaysPerWeek == 7

DaysPerMonth == 30

DaysPerYear == 365

MinusForward(now, hours) ==
    LET total == now.day * HoursPerDay + now.hour + hours
    IN  [ok |-> TRUE, day |-> total \div HoursPerDay,
         hour |-> total % HoursPerDay]

\* datetime.now() - timedelta(hours=hours); not ok is the OverflowError of
\* an instant before 0001-01-01
Minus(now, hours) ==
    LET total == now.day * HoursPerDay + now.hour - hours
    IN  IF total < HoursPerDay THEN [ok |-> FALSE, day |-> 0, hour |-> 0]
        ELSE [ok |-> TRUE, day |-> total \div HoursPerDay,
              hour |-> total % HoursPerDay]

DayBeforeNone(now) == Minus(now, 0)

\* datetime.now() - timedelta(days=1)
DayBefore(now) == Minus(now, HoursPerDay)

AbbrNames ==
    <<<<"j", "a", "n">>, <<"f", "e", "b">>, <<"m", "a", "r">>, <<"a", "p", "r">>, <<"m", "a", "y">>, <<"j", "u", "n">>,
      <<"j", "u", "l">>, <<"a", "u", "g">>, <<"s", "e", "p">>, <<"o", "c", "t">>, <<"n", "o", "v">>, <<"d", "e", "c">>>>

FullNames ==
    <<<<"j", "a", "n", "u", "a", "r", "y">>, <<"f", "e", "b", "r", "u", "a", "r", "y">>, <<"m", "a", "r", "c", "h">>, <<"a", "p", "r", "i", "l">>, <<"m", "a", "y">>, <<"j", "u", "n", "e">>,
      <<"j", "u", "l", "y">>, <<"a", "u", "g", "u", "s", "t">>, <<"s", "e", "p", "t", "e", "m", "b", "e", "r">>, <<"o", "c", "t", "o", "b", "e", "r">>, <<"n", "o", "v", "e", "m", "b", "e", "r">>,
      <<"d", "e", "c", "e", "m", "b", "e", "r">>>>

\* the formats of absolute_formats: the month directive, what stands between
\* the day and the year, whether there is a year
AbsoluteFormats ==
    <<[names |-> AbbrNames, gap |-> <<",", " ">>, has_year |-> TRUE],
      [names |-> FullNames, gap |-> <<",", " ">>, has_year |-> TRUE],
      [names |-> AbbrNames, gap |-> <<" ">>, has_year |-> TRUE],
      [names |-> FullNames, gap |-> <<" ">>, has_year |-> TRUE],
      [names |-> AbbrNames, gap |-> <<>>, has_year |-> FALSE],
      [names |-> FullNames, gap |-> <<>>, has_year |-> FALSE]>>

NoDate == [ok |-> FALSE, year |-> 0, month |-> 0, day |-> 0]

StrptimeYear == 1900

\* %d of strptime: 01..31 or 1..9
IsDayToken(str) ==
    /\ IsDigits(str)
    /\ Len(str) <= 2
    /\ StrToNat(str) \in 1..31
    /\ Len(str) = 1 => str # <<"0">>

\* datetime.strptime(text, fmt) for text whose whitespace is single spaces:
\* the match ignores case and has to use up the whole text; not ok is
\* the ValueError
Strptime(text, fmt) ==
    LET s == StrLower(text)
        months == {m \in 1..12 : MatchesAt(s, 1, fmt.names[m] \o <<" ">>, FALSE)}
    IN  IF months = {} THEN NoDate
        ELSE LET month == CHOOSE m \in months : TRUE
                 from == Len(fmt.names[month]) + 2
                 tail == IF fmt.has_year THEN Len(fmt.gap) + YearWidth ELSE 0
                 day_str == SubSeq(s, from, Len(s) - tail)
                 gap_str == SubSeq(s, Len(s) - tail + 1, Len(s) - YearWidth)
                 year_str == SubSeq(s, Len(s) - YearWidth + 1, Len(s))
                 year == IF fmt.has_year THEN StrToNat(year_str)
                         ELSE StrptimeYear
             IN  IF /\ Len(s) - tail >= from
                    /\ IsDayToken(day_str)
                    /\ fmt.has_year => /\ gap_str = fmt.gap
                                       /\ IsDigits(year_str)
                                       /\ year >= MinYear
                    /\ StrToNat(day_str) <= DaysInMonth(year, month)
                 THEN [ok |-> TRUE, year |-> year, month |-> month,
                       day |-> StrToNat(day_str)]
                 ELSE NoDate

\* the body of the loop over absolute_formats for one format: the date it
\* returns, as an ordinal, or 0 when strptime raises ValueError
AbsoluteDate(cleaned, fmt, now) ==
    LET parsed == Strptime(Title(cleaned), fmt)
        this_year == FromOrdinal(now.day).year
        assumed == ToOrdinal(this_year, parsed.month, parsed.day)
    IN  IF ~parsed.ok THEN 0
        ELSE IF fmt.has_year
        THEN ToOrdinal(parsed.year, parsed.month, parsed.day)
        ELSE IF assumed > now.day
        THEN ToOrdinal(this_year - 1, parsed.month, parsed.day)
        ELSE assumed

\* the first format of absolute_formats that parses, from format f on
RECURSIVE FirstAbsolute(_, _, _)
FirstAbsolute(cleaned, f, now) ==
    IF f > Len(AbsoluteFormats) THEN 0
    ELSE IF AbsoluteDate(cleaned, AbsoluteFormats[f], now) # 0
    THEN AbsoluteDate(cleaned, AbsoluteFormats[f], now)
    ELSE FirstAbsolute(cleaned, f + 1, now)

\* what group(2) of the relative pattern can start with: the alternatives
\* are tried in order and the one-letter ones stand first of their letter
UnitLetters == {"h", "d", "w", "m", "y"}

\* re.search of the relative pattern: digits, optional whitespace, a unit
RelativeAt(s, i) ==
    LET digits == RunLen(s, i, Digits, Len(s))
        spaces == RunLen(s, i + digits, Whitespace, Len(s))
        at == i + digits + spaces
    IN  IF digits > 0 /\ at <= Len(s) /\ s[at] \in UnitLetters
        THEN [ok |-> TRUE, number |-> StrToNat(SubSeq(s, i, i + digits - 1)),
              unit |-> s[at]]
        ELSE [ok |-> FALSE, number |-> 0, unit |-> ""]

RECURSIVE SearchRelative(_, _)
SearchRelative(s, i) ==
    IF i > Len(s) THEN [ok |-> FALSE, number |-> 0, unit |-> ""]
    ELSE IF RelativeAt(s, i).ok THEN RelativeAt(s, i)
    ELSE SearchRelative(s, i + 1)

UnitHoursLongMonth(unit, number) ==
    IF unit = "h" THEN number
    ELSE IF unit = "d" THEN number * HoursPerDay
    ELSE IF unit = "w" THEN number * DaysPerWeek * HoursPerDay
    ELSE IF unit = "m" THEN number * (DaysPerMonth + 1) * HoursPerDay
    ELSE number * DaysPerYear * HoursPerDay

\* the hours of the timedelta the unit and the number give
UnitHours(unit, number) ==
    IF unit = "h" THEN number
    ELSE IF unit = "d" THEN number * HoursPerDay
    ELSE IF unit = "w" THEN number * DaysPerWeek * HoursPerDay
    ELSE IF unit = "m" THEN number * DaysPerMonth * HoursPerDay
    ELSE number * DaysPerYear * HoursPerDay

\* relative_date is None, a str with its text, or another object with
\* what str() makes of it; now is what datetime.now() gives
convert_relative_date_to_actual(relative_date, now, pads_year) ==
    IF relative_date.kind = "none" THEN NA
    ELSE IF relative_date.kind # "str" THEN relative_date.text
    ELSE
        LET raw == relative_date.text
            cleaned == Cleaned(raw)
            absolute == FirstAbsolute(cleaned, 1, now)
            match == SearchRelative(cleaned, 1)
            actual_date == Minus(now, UnitHours(match.unit, match.number))
        IN  IF cleaned \in {JustNow, NowText} THEN FormatDate(now.day, pads_year)
            ELSE IF Contains(Today, cleaned) THEN FormatDate(now.day, pads_year)
            ELSE IF Contains(Yesterday, cleaned)
            THEN FormatDate(DayBefore(now).day, pads_year)
            ELSE IF absolute # 0 THEN FormatDate(absolute, pads_year)
            ELSE IF ~match.ok THEN raw
            ELSE IF ~actual_date.ok THEN raw
            ELSE FormatDate(actual_date.day, pads_year)

(***************************************************************************)
(* convert_relative_date_to_actual called alone                            *)
(***************************************************************************)
Str(text) == [kind |-> "str", text |-> text]

Other(text) == [kind |-> "other", text |-> text]

\* the numbers of the relative expressions
Numbers == {0, 1, 2, 3, 7, 24, 25, 30, 1500, 3000}

UnitWords ==
    {<<"h">>, <<"h", "r">>, <<"h", "r", "s">>, <<"h", "o", "u", "r">>,
     <<"h", "o", "u", "r", "s">>, <<"d">>, <<"d", "a", "y">>,
     <<"d", "a", "y", "s">>, <<"w">>, <<"w", "k">>, <<"w", "k", "s">>,
     <<"w", "e", "e", "k">>, <<"w", "e", "e", "k", "s">>, <<"m">>,
     <<"m", "o">>, <<"m", "o", "s">>, <<"m", "o", "n", "t", "h">>,
     <<"m", "o", "n", "t", "h", "s">>, <<"y">>, <<"y", "r">>,
     <<"y", "r", "s">>, <<"y", "e", "a", "r">>, <<"y", "e", "a", "r", "s">>}

\* words after a number that are no unit of the pattern
OtherWords ==
    {<<"m", "i", "n">>, <<"m", "i", "n", "u", "t", "e", "s">>,
     <<"s", "e", "c">>, <<"x">>}

Gaps == {<<>>, <<" ">>}

Tails == {<<>>, <<" ", "a", "g", "o">>}

RelativeTexts ==
    {NatToStr(n) \o gap \o word \o tail :
        n \in Numbers, gap \in Gaps, word \in UnitWords \cup OtherWords,
        tail \in Tails}

MonthWords ==
    {<<"J", "a", "n">>, <<"F", "E", "B">>, <<"m", "a", "r">>,
     <<"A", "p", "r">>, <<"M", "a", "y">>, <<"j", "u", "n">>,
     <<"J", "u", "l">>, <<"A", "u", "g">>, <<"S", "e", "p">>,
     <<"S", "e", "p", "t">>, <<"O", "c", "t">>, <<"N", "o", "v">>,
     <<"D", "e", "c">>, <<"J", "a", "n", "u", "a", "r", "y">>,
     <<"F", "e", "b", "r", "u", "a", "r", "y">>, <<"m", "a", "r", "c", "h">>,
     <<"J", "u", "n", "e">>, <<"D", "e", "c", "e", "m", "b", "e", "r">>}

DayWords ==
    {<<"1">>, <<"0", "5">>, <<"1", "5">>, <<"2", "9">>, <<"3", "0">>,
     <<"3", "1">>, <<"3", "2">>, <<"0">>}

YearTails ==
    {<<>>, <<",", " ", "2", "0", "2", "4">>, <<" ", "2", "0", "2", "3">>,
     <<",", " ", "0", "9", "9", "9">>, <<",", "2", "0", "2", "4">>,
     <<" ", "a", "g", "o">>}

AbsoluteTexts ==
    {month \o <<" ">> \o day \o tail :
        month \in MonthWords, day \in DayWords, tail \in YearTails}

LooseTexts ==
    {<<>>, <<" ">>, <<"t", "o", "d", "a", "y">>, <<"T", "o", "d", "a", "y">>,
     <<"n", "o", "w">>, <<"N", "O", "W">>,
     <<"j", "u", "s", "t", " ", "n", "o", "w">>,
     <<"J", "u", "s", "t", " ", " ", "n", "o", "w">>,
     <<"n", "o", "w", " ", "a", "g", "o">>,
     <<"r", "i", "g", "h", "t", " ", "n", "o", "w">>,
     <<"y", "e", "s", "t", "e", "r", "d", "a", "y">>,
     <<"Y", "e", "s", "t", "e", "r", "d", "a", "y", "\n">>,
     <<"p", "o", "s", "t", "e", "d", " ", "t", "o", "d", "a", "y">>,
     <<"h", "e", "l", "l", "o">>, <<"5">>, <<"m", "a", "y">>,
     <<"3", " ", "W", "e", "e", "k", "s", " ", "U+2022", " ", "E", "d", "i", "t", "e", "d">>,
     <<"2", "d", "U+2022">>,
     <<"e", "d", "i", "t", "e", "d", " ", "4", "d", " ", "a", "g", "o">>,
     <<"1", "2", "x", " ", "3", "d">>, <<"3", "d", " ", "5", "w">>,
     <<"a", "1", "b", "2", "h">>, <<"7", " ", "\t", " ", "d", "a", "y", "s">>,
     <<"1", " ", "m", "o">>, <<"3", "w", "U+00AC", "U+2211">>,
     <<"2", "d", "U+201A", "U+00C4", "U+00A2", "a", "g", "o">>,
     <<"2", "U+00AC", "U+2211", "d">>,
     <<"5", " ", "m", "i", "n">>,
     <<"1", "0", " ", "m", "i", "n", "u", "t", "e", "s">>}

DateInputs ==
    {[kind |-> "none", text |-> <<>>]}
        \cup {Other(<<"5">>), Other(<<"3", ".", "5">>), Other(<<"[", "]">>), Other(<<"T", "r", "u", "e">>)}
        \cup {Str(text) : text \in RelativeTexts \cup AbsoluteTexts \cup LooseTexts}

\* the instants datetime.now() gives
Instants ==
    {[day |-> ToOrdinal(2024, 3, 1), hour |-> 0],
     [day |-> ToOrdinal(2024, 1, 1), hour |-> 5],
     [day |-> ToOrdinal(2023, 12, 31), hour |-> 23],
     [day |-> ToOrdinal(2025, 6, 15), hour |-> 12]}

InitDates ==
    /\ ScraperInit
    /\ HashtagsIdle
    /\ BuilderIdle
    /\ ProfilesIdle
    /\ d_pc = "call"
    /\ d_args \in [relative_date : DateInputs, now : Instants,
                   pads_year : BOOLEAN]
    /\ d_result = <<>>

CallConvert ==
    /\ d_pc = "call"
    /\ d_result' = convert_relative_date_to_actual(d_args.relative_date,
                                                   d_args.now, d_args.pads_year)
    /\ d_pc' = "returned"
    /\ UNCHANGED <<d_args, svars, hvars, bvars, mvars>>

NextDates == CallConvert

SpecDates == InitDates /\ [][NextDates]_vars

(***************************************************************************)
(* C5: extract_hashtags returns every tag once under case-insensitive      *)
(* comparison, with the casing of its first occurrence, in first-seen      *)
(* order over the primary text, then the auxiliary texts, then the markup; *)
(* "I love #ai and #AI" gives ["#ai"].                                     *)
(***************************************************************************)
\* every hashtag occurrence of the arguments, in scanning order, duplicates
\* included
VisibleOccurrences(t) ==
    LET found == FindAllPrefixed(SeparateHashes(t, 1), <<"#">>, WordChars, FALSE)
    IN  [n \in 1..Len(found) |-> <<"#">> \o found[n]]

RECURSIVE OccurrencesOfAll(_)
OccurrencesOfAll(texts) ==
    IF texts = <<>> THEN <<>>
    ELSE VisibleOccurrences(Head(texts)) \o OccurrencesOfAll(Tail(texts))

LinkOccurrences(html, lit) ==
    LET found == FindAllPrefixed(html, lit, LinkChars, TRUE)
    IN  [n \in 1..Len(found) |-> <<"#">> \o found[n]]

Occurrences(args) ==
    VisibleOccurrences(args.content_text)
        \o OccurrencesOfAll(args.extra_texts)
        \o VisibleOccurrences(args.html_text)
        \o LinkOccurrences(args.html_text, HashtagLink)
        \o LinkOccurrences(args.html_text, EncodedHash)

\* the occurrences that repeat no earlier one, whatever the casing
FirstSpellings(occ) ==
    LET first == {i \in 1..Len(occ) :
                     \A j \in 1..(i - 1) : StrLower(occ[j]) # StrLower(occ[i])}
        pick[n \in 0..Len(occ)] ==
            IF n = 0 THEN <<>>
            ELSE IF n \in first THEN Append(pick[n - 1], occ[n])
            ELSE pick[n - 1]
    IN  pick[Len(occ)]

C5_HashtagsFirstSeen ==
    h_pc = "returned" =>
        /\ \A i, j \in 1..Len(h_tags) :
              i # j => StrLower(h_tags[i]) # StrLower(h_tags[j])
        /\ h_tags = FirstSpellings(Occurrences(h_args))
        /\ (h_args = [content_text |-> ILoveAi, html_text |-> <<>>,
                      extra_texts |-> <<>>]
               => h_tags = <<<<"#", "a", "i">>>>)

\* the documented example has been run: two spellings, one tag returned
C5_Witness ==
    /\ h_pc = "returned"
    /\ h_args.content_text = ILoveAi
    /\ h_args.html_text = <<>>
    /\ Len(Occurrences(h_args)) = 2
    /\ h_tags = <<<<"#", "a", "i">>>>

(***************************************************************************)
(* Records, as the properties below read them                              *)
(***************************************************************************)
\* every record built so far: the appended ones and the one returned by
\* extract_post_data
AllRecords == all_data \o combined_data

\* the hashtags a record lists in its 'Hashtags' field
ListedTags(rec) ==
    IF rec.Hashtags = NoneStr THEN <<>>
    ELSE LET parts == SplitOn(rec.Hashtags, ",")
         IN  [n \in 1..Len(parts) |-> Strip(parts[n])]

\* the minimum-content policy: the text is refused
RefusedByPolicy(text) ==
    text = NA \/ Len(Strip(text)) < 10 \/ WordCount(text) < 3

(***************************************************************************)
(* C1: during one scrape_profile call, over all its extract_posts passes,  *)
(* no fingerprint is represented by more than one record of all_data.      *)
(***************************************************************************)
C1_NoDuplicateFingerprint ==
    \A i, j \in 1..Len(accepted_fps) :
        (i < j /\ accepted_fps[i] # <<>>) => accepted_fps[i] # accepted_fps[j]

\* second pass of a personal profile: the fragment accepted in the first
\* pass was accepted again, and all_data holds its record twice
C1_Witness ==
    /\ pass = 2
    /\ ~is_company
    /\ Len(all_data) = 2
    /\ accepted_fps = <<Fingerprint(PostA), Fingerprint(PostA)>>
    /\ all_data[1].Post_Content = all_data[2].Post_Content

(***************************************************************************)
(* C2: every record extract_posts appends to all_data has a text that is   *)
(* not "N/A", has at least 10 characters after trimming and at least 3     *)
(* words, on the per-element path and on the fallback path.                *)
(***************************************************************************)
C2_AppendedContentPassesPolicy ==
    \A i \in 1..Len(all_data) : ~RefusedByPolicy(all_data[i].Post_Content)

\* the fallback appended the line before a date line as it stood
C2_Witness ==
    /\ pc = "returned"
    /\ max_posts > 0
    /\ post_elements = <<>>
    /\ \E i \in 1..Len(all_data) : all_data[i].Post_Content = TextOk

(***************************************************************************)
(* C3: in every record of every building site, Total Engagement is the sum *)
(* of the reactions, the comments and the shares of that record.           *)
(***************************************************************************)
C3_TotalIsSum ==
    \A i \in 1..Len(AllRecords) :
        AllRecords[i].Total_Engagement =
            AllRecords[i].Post_Reactions + AllRecords[i].Post_Comments
                + AllRecords[i].Post_Shares

\* a record with all three counts set was appended, and extract_post_data
\* is not the only site seen
C3_Witness ==
    \E i \in 1..Len(all_data) :
        /\ all_data[i].Post_Reactions = 100
        /\ all_data[i].Post_Comments = 10
        /\ all_data[i].Post_Shares = 5
        /\ all_data[i].Total_Engagement = 115

(***************************************************************************)
(* C4: in every record appended to all_data or returned by                 *)
(* extract_post_data, the listed hashtags are pairwise distinct under      *)
(* case-insensitive comparison.                                            *)
(***************************************************************************)
C4_ListedHashtagsDistinct ==
    \A i \in 1..Len(AllRecords) :
        LET tags == ListedTags(AllRecords[i])
        IN  \A m, n \in 1..Len(tags) :
                m # n => StrLower(tags[m]) # StrLower(tags[n])

\* the fallback listed the two spellings of one tag in a record of all_data
C4_Witness ==
    \E i \in 1..Len(all_data) :
        /\ all_data[i].Post_Content = TextA
        /\ ListedTags(all_data[i]) = <<<<"#", "a", "i">>, <<"#", "A", "I">>>>

(***************************************************************************)
(* C6: within one run of the deduplicator every fingerprint fed to it has  *)
(* exactly one surviving entry, however often it was fed; that holds again *)
(* in the next run (the seen set reset), where a fragment that survived    *)
(* the run before survives anew.                                           *)
(***************************************************************************)
\* the entries of unique_posts that stand for the fingerprint of elem
Survivors(elem) ==
    {u \in 1..Len(unique_posts) :
        /\ ~unique_posts[u].text_raises
        /\ Fingerprint(unique_posts[u]) = Fingerprint(elem)}

C6_OneSurvivorPerRun ==
    pc = "dedup" =>
        \A j \in 1..(k - 1) :
            ~elements[j].text_raises => Cardinality(Survivors(elements[j])) = 1

\* second run of a personal profile: the fragment was accepted in the first
\* run, is fed twice in the second and survives once
C6_Witness ==
    /\ pc = "dedup"
    /\ pass = 2
    /\ k = 3
    /\ elements = <<PostA, PostA>>
    /\ \E i \in 1..Len(accepted_fps) : accepted_fps[i] = Fingerprint(PostA)
    /\ unique_posts = <<PostA>>

(***************************************************************************)
(* C7: the deduplicator's output is the first max_posts elements of the    *)
(* subsequence of first occurrences, in input order: truncation comes      *)
(* after deduplication, a duplicate takes no slot.  (An element whose      *)
(* fingerprint cannot be computed repeats nothing: see C8.)                *)
(***************************************************************************)
\* the indices of found that repeat no earlier fingerprint
FirstOccurrences(found) ==
    {i \in 1..Len(found) :
        \/ found[i].text_raises
        \/ \A j \in 1..(i - 1) :
              \/ found[j].text_raises
              \/ Fingerprint(found[j]) # Fingerprint(found[i])}

\* the subsequence of found at the indices of at
SubsequenceAt(found, at) ==
    LET pick[n \in 0..Len(found)] ==
            IF n = 0 THEN <<>>
            ELSE IF n \in at THEN Append(pick[n - 1], found[n])
            ELSE pick[n - 1]
    IN  pick[Len(found)]

FirstN(q, n) == SubSeq(q, 1, IF n < Len(q) THEN n ELSE Len(q))

C7_TruncationAfterDedup ==
    pc \in {"posts", "fallback", "returned", "done"} =>
        post_elements =
            FirstN(SubsequenceAt(elements, FirstOccurrences(elements)), max_posts)

\* a duplicate stood before the second distinct element and took no slot
C7_Witness ==
    /\ pc = "posts"
    /\ elements = <<PostA, PostA, PostB>>
    /\ max_posts = 2
    /\ post_elements = <<PostA, PostB>>

(***************************************************************************)
(* C8: when the fingerprint of a fragment cannot be computed, the fragment *)
(* is kept, at its position, the seen set is unchanged and the loop goes   *)
(* on to the next fragment.                                                *)
(***************************************************************************)
C8_FailedFingerprintKept ==
    [][(pc = "dedup" /\ k <= Len(elements) /\ elements[k].text_raises)
          => /\ unique_posts' = Append(unique_posts, elements[k])
             /\ seen_fingerprints' = seen_fingerprints
             /\ k' = k + 1
             /\ pc' = "dedup"]_vars

\* the unreadable fragment stands between the two readable ones in the
\* output, and the one after it was processed
C8_Witness ==
    /\ pc = "dedup"
    /\ k = 4
    /\ elements = <<PostA, PostStale, PostB>>
    /\ unique_posts = <<PostA, PostStale, PostB>>
    /\ seen_fingerprints = {Fingerprint(PostA), Fingerprint(PostB)}

(***************************************************************************)
(* C9: a fragment whose extraction fails or that validation rejects leaves *)
(* all_data unchanged and does not end the loop; a later valid fragment is *)
(* still appended.                                                         *)
(***************************************************************************)
C9_BadFragmentSkipped ==
    [][(pc = "posts" /\ idx <= Len(post_elements))
          => LET post_elem == post_elements[idx]
                 bad == \/ post_elem.find_raises
                        \/ RefusedByPolicy(ContentText(post_elem))
             IN  /\ pc' = "posts"
                 /\ idx' = idx + 1
                 /\ bad => all_data' = all_data
                 /\ ~bad =>
                       /\ Len(all_data') = Len(all_data) + 1
                       /\ SubSeq(all_data', 1, Len(all_data)) = all_data
                       /\ all_data'[Len(all_data')].Post_Content =
                             ContentText(post_elem)
                       /\ all_data'[Len(all_data')].Post_Position = idx]_vars

\* a rejected fragment and one whose extraction raised were passed over,
\* and the valid fragment after them was appended
C9_Witness ==
    /\ pc = "posts"
    /\ idx = 4
    /\ post_elements = <<PostOk, PostStale, PostA>>
    /\ Len(all_data) = 1
    /\ all_data[1].Post_Position = 3
    /\ all_data[1].Post_Content = TextA

(***************************************************************************)
(* C10: extract_single_post returns no record when the text content is     *)
(* "N/A", shorter than 10 characters after trimming or shorter than 3      *)
(* words, and returns a record for every text with at least 3 words and at *)
(* least 10 characters; "ok" is rejected.                                  *)
(***************************************************************************)
C10_BuilderPolicy ==
    b_pc = "returned" =>
        LET text == ContentText(b_args.post_elem)
        IN  /\ RefusedByPolicy(text) => b_post_data = <<>>
            /\ ~RefusedByPolicy(text)
                  => /\ Len(b_post_data) = 1
                     /\ b_post_data[1].Post_Content = text
            /\ text = TextOk => b_post_data = <<>>

\* a text of four words and thirteen characters was read, the media lookup
\* raised, and no record came back
C10_Witness ==
    /\ b_pc = "returned"
    /\ ContentText(b_args.post_elem) = TextA
    /\ b_args.post_elem.find_raises
    /\ b_post_data = <<>>

(***************************************************************************)
(* C11: all_data is append-only across the scrape_profile and              *)
(* extract_posts calls: a record once appended is never removed, reordered *)
(* or modified, and the records of one extract_posts call stand in         *)
(* fragment-processing order.                                              *)
(***************************************************************************)
\* the records the running (or just returned) extract_posts call appended
CallRecords ==
    SubSeq(all_data, Len(all_data) - posts_extracted + 1, Len(all_data))

InProcessingOrder ==
    pc \in {"posts", "returned", "done"} =>
        /\ posts_extracted <= Len(all_data)
        /\ \A m, n \in 1..Len(CallRecords) :
              m < n => CallRecords[m].Post_Position < CallRecords[n].Post_Position
        /\ post_elements # <<>> =>
              \A n \in 1..Len(CallRecords) :
                  /\ CallRecords[n].Post_Position \in 1..Len(post_elements)
                  /\ CallRecords[n].Post_Content =
                        ContentText(post_elements[CallRecords[n].Post_Position])

C11_AppendOnly ==
    /\ [][/\ Len(all_data') >= Len(all_data)
          /\ SubSeq(all_data', 1, Len(all_data)) = all_data]_vars
    /\ []InProcessingOrder

\* the second listed profile is in its per-element loop: records of the
\* first profile stand before the one this call has appended
C11_Witness ==
    /\ m_pc = "loop"
    /\ m_idx = 2
    /\ pc = "posts"
    /\ posts_extracted = 1
    /\ Len(all_data) >= 3

\* ---------------------------------------------------------------------
\* C12  The record's Content Type is one of Video, Image, Document and
\* Text Only, picked in that priority from the media found in the post:
\* a post whose only media is a document is a Document, a post with an
\* image and a document is an Image.
Document == <<"D", "o", "c", "u", "m", "e", "n", "t">>

ContentTypes == {Video, Image, Document, TextOnly}

ByPriority(elem) ==
    IF elem.has_video THEN Video
    ELSE IF elem.has_image THEN Image
    ELSE IF elem.has_document THEN Document
    ELSE TextOnly

BuiltRecord == b_pc = "returned" /\ b_post_data # <<>>

C12_ClassifierPriority ==
    BuiltRecord =>
        /\ b_post_data[1].Content_Type \in ContentTypes
        /\ b_post_data[1].Content_Type = ByPriority(b_args.post_elem)

C12_Witness ==
    /\ BuiltRecord
    /\ b_args.post_elem.has_document
    /\ ~b_args.post_elem.has_video
    /\ ~b_args.post_elem.has_image
    /\ b_post_data[1].Content_Type = TextOnly
    /\ b_post_data[1].Has_Document = No

\* ---------------------------------------------------------------------
\* C13  Of the two media the post builder looks for: a video alone makes
\* the record a Video, an image alone an Image, neither Text Only, and
\* both together a Video.
C13_VideoBeforeImage ==
    BuiltRecord =>
        LET elem == b_args.post_elem
            type == b_post_data[1].Content_Type
        IN  /\ elem.has_video /\ ~elem.has_image => type = Video
            /\ ~elem.has_video /\ elem.has_image => type = Image
            /\ ~elem.has_video /\ ~elem.has_image => type = TextOnly
            /\ elem.has_video /\ elem.has_image => type = Video

C13_Witness ==
    /\ BuiltRecord
    /\ b_args.post_elem.has_video
    /\ b_args.post_elem.has_image
    /\ b_post_data[1].Content_Type = Video

\* ---------------------------------------------------------------------
\* Reading a formatted number back: the value of "12.34%" in hundredths.
\* digits, a point, exactly `places` digits, then `suffix`
IsFixed(str, places, suffix) ==
    LET n == Len(str) - Len(suffix)
    IN  /\ n >= places + 2
        /\ SubSeq(str, n + 1, Len(str)) = suffix
        /\ str[n - places] = "."
        /\ IsDigits(SubSeq(str, 1, n - places - 1))
        /\ IsDigits(SubSeq(str, n - places + 1, n))

FixedValue(str, places, suffix) ==
    LET n == Len(str) - Len(suffix)
    IN  StrToNat(SubSeq(str, 1, n - places - 1)) * Pow10(places)
            + StrToNat(SubSeq(str, n - places + 1, n))

Abs(x) == IF x < 0 THEN 0 - x ELSE x

\* `scaled` / 10^places is a nearest representable value to num / den
IsNearest(scaled, places, num, den) ==
    2 * Abs(scaled * den - num * Pow10(places)) <= den

ZeroRate == <<"0", ".", "0", "0", "%">>

\* C14  The Engagement Rate of a record is total engagement divided by
\* the follower count, times 100, with two decimals and a percent sign,
\* when the follower count is a known positive integer, and exactly
\* "0.00%" otherwise; in the records of extract_single_post and in those
\* of extract_post_data.
RateOf(record) ==
    LET followers == record.Profile_Followers
        rate == record.Engagement_Rate
    IN  IF followers.is_int /\ followers.value > 0
        THEN /\ IsFixed(rate, 2, <<"%">>)
             /\ IsNearest(FixedValue(rate, 2, <<"%">>), 2,
                          record.Total_Engagement * 100, followers.value)
        ELSE rate = ZeroRate

C14_EngagementRate ==
    \A n \in 1..Len(AllRecords) : RateOf(AllRecords[n])

C14_Witness ==
    /\ combined_data # <<>>
    /\ combined_data[1].Profile_Followers = FollowersInt(7)
    /\ combined_data[1].Total_Engagement = 6
    /\ combined_data[1].Engagement_Rate = <<"8", "5", ".", "7", "1", "%">>

\* ---------------------------------------------------------------------
\* C15  A record with zero reactions has the Engagement Rate "0.00%" and
\* the literal "0" as both its Comment/Reaction Ratio and its
\* Share/Reaction Ratio, wherever the record is built.
C15_ZeroReactions ==
    \A n \in 1..Len(AllRecords) :
        LET r == AllRecords[n]
        IN  r.Post_Reactions = 0 =>
            /\ r.Engagement_Rate = ZeroRate
            /\ r.Comment_Reaction_Ratio = Zero
            /\ r.Share_Reaction_Ratio = Zero

C15_Witness ==
    /\ combined_data # <<>>
    /\ combined_data[1].Post_Reactions = 0
    /\ combined_data[1].Post_Comments = 0
    /\ combined_data[1].Post_Shares = 0
    /\ combined_data[1].Engagement_Rate = ZeroRate
    /\ combined_data[1].Comment_Reaction_Ratio = Zero
    /\ combined_data[1].Share_Reaction_Ratio = Zero \o Percent

\* ---------------------------------------------------------------------
\* C16  A record with reactions has comments / reactions with exactly
\* three decimals as its Comment/Reaction Ratio; 100 reactions, 10
\* comments, 5 shares and 1000 followers give the total 115, the rate
\* "11.50%" and the ratio "0.100".
C16_CommentRatio ==
    \A n \in 1..Len(AllRecords) :
      LET r == AllRecords[n]
      IN
        /\ r.Post_Reactions > 0 =>
              /\ IsFixed(r.Comment_Reaction_Ratio, 3, <<>>)
              /\ IsNearest(FixedValue(r.Comment_Reaction_Ratio, 3, <<>>), 3,
                           r.Post_Comments, r.Post_Reactions)
        /\ /\ r.Post_Reactions = 100
           /\ r.Post_Comments = 10
           /\ r.Post_Shares = 5
           /\ r.Profile_Followers = FollowersInt(1000)
           => /\ r.Total_Engagement = 115
              /\ r.Engagement_Rate = <<"1", "1", ".", "5", "0", "%">>
              /\ r.Comment_Reaction_Ratio = <<"0", ".", "1", "0", "0">>

C16_Witness ==
    \E n \in 1..Len(all_data) :
        /\ all_data[n].Post_Reactions = 100
        /\ all_data[n].Post_Comments = 10
        /\ all_data[n].Post_Shares = 5
        /\ all_data[n].Profile_Followers = FollowersInt(1000)
        /\ all_data[n].Comment_Reaction_Ratio = <<"0", ".", "1", "0", "0">>

\* ---------------------------------------------------------------------
\* the result of a call of convert_relative_date_to_actual, and the call
\* made at the same instant on the same platform with another argument
Converted == d_pc = "returned"

ConvertText(text) ==
    convert_relative_date_to_actual(Str(text), d_args.now, d_args.pads_year)

\* the date a result shows, as a day number, whatever the width of its
\* year; 0 when the result is no date
DateShown(str) ==
    LET n == Len(str)
    IN  IF /\ n >= 7
           /\ str[n - 2] = "-"
           /\ str[n - 5] = "-"
           /\ IsDigits(SubSeq(str, 1, n - 6))
           /\ IsDigits(SubSeq(str, n - 4, n - 3))
           /\ IsDigits(SubSeq(str, n - 1, n))
        THEN ToOrdinal(StrToNat(SubSeq(str, 1, n - 6)),
                       StrToNat(SubSeq(str, n - 4, n - 3)),
                       StrToNat(SubSeq(str, n - 1, n)))
        ELSE 0

\* C17  convert_relative_date_to_actual returns "N/A" for every argument
\* that is not a string (None, a number, another object) and for the
\* empty string.
C17_SentinelForNonText ==
    Converted /\ (d_args.relative_date.kind # "str"
                     \/ d_args.relative_date.text = <<>>)
        => d_result = NA

C17_Witness ==
    /\ Converted
    /\ d_args.relative_date = Other(<<"5">>)
    /\ d_result = <<"5">>

\* YYYY-MM-DD: four digits, two digits from 01 to 12, two digits that are
\* a day of that month
IsCalendarDate(str) ==
    /\ Len(str) = 10
    /\ str[5] = "-"
    /\ str[8] = "-"
    /\ IsDigits(SubSeq(str, 1, 4))
    /\ IsDigits(SubSeq(str, 6, 7))
    /\ IsDigits(SubSeq(str, 9, 10))
    /\ StrToNat(SubSeq(str, 1, 4)) >= 1
    /\ StrToNat(SubSeq(str, 6, 7)) \in 1..12
    /\ StrToNat(SubSeq(str, 9, 10)) \in
          1..DaysInMonth(StrToNat(SubSeq(str, 1, 4)), StrToNat(SubSeq(str, 6, 7)))

\* C18  For every string argument the call returns, and what it returns
\* is a YYYY-MM-DD calendar date or the argument itself, unchanged.
C18_DateOrInput ==
    Converted /\ d_args.relative_date.kind = "str"
        => \/ IsCalendarDate(d_result)
           \/ d_result = d_args.relative_date.text

C18_Witness ==
    /\ Converted
    /\ d_args.relative_date = Str(<<"1", "5", "0", "0", " ", "y", "e", "a", "r", "s", " ", "a", "g", "o">>)
    /\ d_args.now.day = ToOrdinal(2024, 3, 1)
    /\ ~d_args.pads_year
    /\ d_result = <<"5", "2", "5", "-", "0", "2", "-", "2", "8">>

\* C19  At one instant "today", "now" and "just now" give the same
\* result, the current date, and "yesterday" gives the date one day
\* before it.
C19_Keywords ==
    Converted =>
        /\ d_args.relative_date \in {Str(Today), Str(NowText), Str(JustNow)} =>
              /\ ConvertText(Today) = d_result
              /\ ConvertText(NowText) = d_result
              /\ ConvertText(JustNow) = d_result
              /\ IsCalendarDate(d_result)
              /\ DateShown(d_result) = d_args.now.day
        /\ d_args.relative_date = Str(Yesterday) =>
              /\ IsCalendarDate(d_result)
              /\ DateShown(d_result) = d_args.now.day - 1

C19_Witness ==
    /\ Converted
    /\ d_args.relative_date = Str(Yesterday)
    /\ d_args.now.day = ToOrdinal(2024, 3, 1)
    /\ d_result = <<"2", "0", "2", "4", "-", "0", "2", "-", "2", "9">>

\* ---------------------------------------------------------------------
\* C20  At one instant and for one unit, a larger number gives an earlier
\* or the same date: for n1 <= n2, the date of <n2><unit> is not later
\* than the date of <n1><unit>.
C20_MonotonicInNumber ==
    Converted /\ d_args.relative_date.kind = "str"
              /\ d_args.relative_date.text \in RelativeTexts
              /\ DateShown(d_result) # 0 =>
        \A n2 \in Numbers, gap \in Gaps, word \in UnitWords, tail \in Tails :
            d_args.relative_date.text = NatToStr(n2) \o gap \o word \o tail =>
                \A n1 \in Numbers :
                    n1 <= n2 =>
                        LET earlier == ConvertText(NatToStr(n1) \o gap \o word \o tail)
                        IN  /\ DateShown(earlier) # 0
                            /\ DateShown(d_result) <= DateShown(earlier)

C20_Witness ==
    /\ Converted
    /\ d_args.relative_date = Str(<<"7", "w">>)
    /\ d_args.now.day = ToOrdinal(2024, 3, 1)
    /\ d_result = <<"2", "0", "2", "4", "-", "0", "1", "-", "1", "2">>
    /\ ConvertText(<<"3", "w">>) = <<"2", "0", "2", "4", "-", "0", "2", "-", "0", "9">>

\* ---------------------------------------------------------------------
\* the spellings of each unit, and the hours one unit lasts
HourSpellings == {<<"h">>, <<"h", "r">>, <<"h", "r", "s">>, <<"h", "o", "u", "r">>, <<"h", "o", "u", "r", "s">>}

DaySpellings == {<<"d">>, <<"d", "a", "y">>, <<"d", "a", "y", "s">>}

WeekSpellings == {<<"w">>, <<"w", "k">>, <<"w", "k", "s">>, <<"w", "e", "e", "k">>, <<"w", "e", "e", "k", "s">>}

MonthSpellings == {<<"m">>, <<"m", "o">>, <<"m", "o", "s">>, <<"m", "o", "n", "t", "h">>, <<"m", "o", "n", "t", "h", "s">>}

YearSpellings == {<<"y">>, <<"y", "r">>, <<"y", "r", "s">>, <<"y", "e", "a", "r">>, <<"y", "e", "a", "r", "s">>}

HoursOf(word) ==
    IF word \in HourSpellings THEN 1
    ELSE IF word \in DaySpellings THEN 24
    ELSE IF word \in WeekSpellings THEN 7 * 24
    ELSE IF word \in MonthSpellings THEN 30 * 24
    ELSE 365 * 24

\* C21  A relative expression <number><unit> gives the date of now minus
\* number times the duration of the unit, an hour, a day, a week of 7
\* days, a month of 30 days or a year of 365 days, in every spelling of
\* the unit; when that instant lies before the first day of the calendar
\* the expression itself is returned.
C21_UnitDurations ==
    /\ UnitWords = HourSpellings \cup DaySpellings \cup WeekSpellings
                      \cup MonthSpellings \cup YearSpellings
    /\ Converted /\ d_args.relative_date.kind = "str" =>
          \A n \in Numbers, gap \in Gaps, word \in UnitWords, tail \in Tails :
              d_args.relative_date.text = NatToStr(n) \o gap \o word \o tail =>
                  LET hours == d_args.now.day * 24 + d_args.now.hour
                                  - n * HoursOf(word)
                  IN  IF hours >= 24
                      THEN DateShown(d_result) = hours \div 24
                      ELSE d_result = d_args.relative_date.text

C21_Witness ==
    /\ Converted
    /\ d_args.relative_date = Str(<<"2", " ", "m", "o", "n", "t", "h", "s", " ", "a", "g", "o">>)
    /\ d_args.now = [day |-> ToOrdinal(2024, 3, 1), hour |-> 0]
    /\ d_result = <<"2", "0", "2", "4", "-", "0", "1", "-", "0", "1">>

\* ---------------------------------------------------------------------
\* the month a word names, by its abbreviation or in full, in any case;
\* 0 when it names none
MonthNamed(word) ==
    LET named == {m \in 1..12 : StrLower(word) \in {AbbrNames[m], FullNames[m]}}
    IN  IF named = {} THEN 0 ELSE CHOOSE m \in named : TRUE

\* C22  A month name and a day without a year are resolved as an absolute
\* date: the day of the current year, or of the year before when that day
\* is still to come, so the result is never later than the current date
\* and never more than a year before it.
C22_YearlessAbsolute ==
    Converted /\ d_args.relative_date.kind = "str" =>
        \A word \in MonthWords, day_word \in DayWords :
            LET month == MonthNamed(word)
                day == StrToNat(day_word)
                this_year == FromOrdinal(d_args.now.day).year
                assumed == ToOrdinal(this_year, month, day)
                shown == DateShown(d_result)
            IN  /\ d_args.relative_date.text = word \o <<" ">> \o day_word
                /\ month # 0
                /\ day \in 1..DaysInMonth(this_year, month)
                /\ assumed > d_args.now.day => day <= DaysInMonth(this_year - 1, month)
                => /\ shown # 0
                   /\ shown = IF assumed > d_args.now.day
                              THEN ToOrdinal(this_year - 1, month, day)
                              ELSE assumed
                   /\ shown <= d_args.now.day
                   /\ shown > ToOrdinal(this_year - 1, FromOrdinal(d_args.now.day).month, 1)
                                 + FromOrdinal(d_args.now.day).day - 1

C22_Witness ==
    /\ Converted
    /\ d_args.relative_date = Str(<<"F", "e", "b", "r", "u", "a", "r", "y", " ", "2", "9">>)
    /\ d_args.now = [day |-> ToOrdinal(2024, 3, 1), hour |-> 0]
    /\ d_result = <<"F", "e", "b", "r", "u", "a", "r", "y", " ", "2", "9">>

\* ---------------------------------------------------------------------
\* C30  A number is converted only when an hour, day, week, month or
\* year unit follows it: a number followed by another word, as in
\* "5 min", "10 minutes" or "30 sec", matches no pattern and the input is
\* returned unchanged.
C30_OtherUnitsUnchanged ==
    Converted /\ d_args.relative_date.kind = "str" =>
        /\ \A n \in Numbers, gap \in Gaps, word \in OtherWords, tail \in Tails :
              d_args.relative_date.text = NatToStr(n) \o gap \o word \o tail
                  => d_result = d_args.relative_date.text
        /\ d_args.relative_date.text \in {<<"5", " ", "m", "i", "n">>, <<"1", "0", " ", "m", "i", "n", "u", "t", "e", "s">>, <<"3", "0", " ", "s", "e", "c">>}
              => d_result = d_args.relative_date.text

C30_Witness ==
    /\ Converted
    /\ d_args.relative_date = Str(<<"5", " ", "m", "i", "n">>)
    /\ d_args.now = [day |-> ToOrdinal(2024, 3, 1), hour |-> 0]
    /\ d_result = <<"2", "0", "2", "3", "-", "1", "0", "-", "0", "3">>

\* ---------------------------------------------------------------------
\* the text a fingerprint is taken from
SeenText(elem) == Strip(elem.text)

\* the length of the relative-time token that starts at position i of the
\* text, digits and one of the unit letters or one of the two day words in
\* any case; 0 when none starts there
TokenLength(text, i) ==
    LET digits == RunLen(text, i, Digits, Len(text))
    IN  IF /\ digits > 0
           /\ i + digits <= Len(text)
           /\ LowerChar(text[i + digits]) \in {"h", "d", "w", "m", "o"}
        THEN digits + 1
        ELSE IF \E word \in {Today, Yesterday} : MatchesAt(text, i, word, TRUE)
        THEN Len(CHOOSE word \in {Today, Yesterday} : MatchesAt(text, i, word, TRUE))
        ELSE 0

\* the content signature is the text up to 200 characters and its first
\* 150 and last 50 characters beyond
IsContentSignature(sig, text) ==
    IF Len(text) <= 200 THEN sig = text
    ELSE /\ Len(sig) > 200
         /\ SubSeq(sig, 1, 150) = SubSeq(text, 1, 150)
         /\ SubSeq(sig, Len(sig) - 49, Len(sig)) = SubSeq(text, Len(text) - 49, Len(text))

\* the date signature is the first token of the text, "unknown" without one
IsDateSignature(sig, text) ==
    LET starts == {i \in 1..Len(text) : TokenLength(text, i) > 0}
        first == CHOOSE i \in starts : \A j \in starts : i <= j
    IN  IF starts = {} THEN sig = Unknown
        ELSE sig = SubSeq(text, first, first + TokenLength(text, first) - 1)

\* both fragments of a page of two have been through the dedup loop
BothSeen ==
    /\ pc = "dedup"
    /\ Len(elements) = 2
    /\ k = 3

SignaturesAsStated ==
    pc = "dedup" =>
        \A n \in 1..(k - 1) :
            \E fp \in seen_fingerprints :
                /\ IsContentSignature(fp[1], SeenText(elements[n]))
                /\ IsDateSignature(fp[2], SeenText(elements[n]))
                /\ fp[3] = YPos(elements[n])

SameSignatures ==
    /\ ContentSignature(SeenText(elements[1])) = ContentSignature(SeenText(elements[2]))
    /\ DateSig(SeenText(elements[1])) = DateSig(SeenText(elements[2]))
    /\ YPos(elements[1]) = YPos(elements[2])

\* C23  as stated: the signatures are as above, two fragments are
\* duplicates exactly when the three parts of the fingerprint are equal,
\* and two fragments with the same visible text are duplicates.
C23_SameTextCollides ==
    /\ SignaturesAsStated
    /\ BothSeen =>
          /\ Len(unique_posts) = 1 <=> SameSignatures
          /\ SeenText(elements[1]) = SeenText(elements[2]) => Len(unique_posts) = 1

\* C23  The content signature is the whole text up to 200 characters and
\* its first 150 joined to its last 50 characters beyond, the date
\* signature the first relative-time token of the text or "unknown"; two
\* fragments are duplicates exactly when content signature, date
\* signature and spatial hint are equal, so two fragments with the same
\* visible text at the same spatial hint are duplicates, and at different
\* spatial hints they are not.
C23_Fingerprint ==
    /\ SignaturesAsStated
    /\ BothSeen =>
          /\ Len(unique_posts) = 1 <=> SameSignatures
          /\ SeenText(elements[1]) = SeenText(elements[2]) =>
                (Len(unique_posts) = 1 <=> YPos(elements[1]) = YPos(elements[2]))

C23_Witness ==
    /\ BothSeen
    /\ Len(SeenText(elements[1])) > 200
    /\ elements[1].text # elements[2].text
    /\ Len(unique_posts) = 1
    /\ Cardinality(seen_fingerprints) = 1

\* ---------------------------------------------------------------------
\* the records the first extract_posts call of the scrape appended, seen
\* from the second call
FirstPassRecords == Len(all_data) - posts_extracted

\* C24  For a personal profile the second extract_posts call, on the
\* activity page, is made only when the first call extracted fewer than
\* 5 posts; after a first call that extracted 5 or more, no further
\* record is appended to all_data for that profile.
C24_SecondPassOnlyWhenFew ==
    /\ [][pc = "returned" /\ ~is_company /\ pass = 1 /\ posts_extracted >= 5
             => pass' = 1]_vars
    /\ [](~is_company /\ pass = 2 /\ pc \in {"posts", "fallback", "returned", "done"}
             /\ FirstPassRecords >= 5 => posts_extracted = 0)

C24_Witness ==
    /\ ~is_company
    /\ pass = 2
    /\ pc = "done"
    /\ result = "true"
    /\ FirstPassRecords = 5
    /\ posts_extracted = 5
    /\ Len(all_data) = 10

\* ---------------------------------------------------------------------
\* inside an extract_posts call, posts_extracted counts what the call has
\* appended so far
CountsAppends ==
    [][/\ pc = "extract_posts" => posts_extracted' = 0 /\ all_data' = all_data
       /\ pc = "dedup" => /\ posts_extracted' = posts_extracted
                          /\ all_data' = all_data
       /\ pc \in {"posts", "fallback"} =>
             /\ Len(all_data') - Len(all_data) = posts_extracted' - posts_extracted
             /\ SubSeq(all_data', 1, Len(all_data)) = all_data]_vars

InCall == pc \in {"dedup", "posts", "fallback", "returned"}

\* C25  One extract_posts call appends at most max_posts records to
\* all_data, for every max_posts >= 0, in the loop over the elements and
\* in the page-text fallback.
C25_AtMostMaxPosts ==
    /\ CountsAppends
    /\ [](InCall => posts_extracted <= max_posts)

C25_Witness ==
    /\ pc = "returned"
    /\ max_posts = 0
    /\ post_elements = <<>>
    /\ posts_extracted = 1
    /\ Len(all_data) = 1
    /\ all_data[1].Post_Position = 1

\* ---------------------------------------------------------------------
\* the fragment passes validation: extract_single_post makes a record
PassesValidation(elem) == extract_single_post(elem, profile_data, 1) # <<>>

\* C26  When the page holds at least max_posts distinct fragments that
\* pass validation, the call appends exactly max_posts records: a
\* fragment that fails validation takes none of the max_posts places.
C26_ExactlyMaxPosts ==
    pc = "returned" /\ Len(SelectSeq(unique_posts, PassesValidation)) >= max_posts
        => posts_extracted = max_posts

C26_Witness ==
    /\ pc = "returned"
    /\ max_posts = 1
    /\ Len(unique_posts) = 2
    /\ ~PassesValidation(unique_posts[1])
    /\ PassesValidation(unique_posts[2])
    /\ post_elements = <<unique_posts[1]>>
    /\ posts_extracted = 0
    /\ all_data = <<>>

\* ---------------------------------------------------------------------
\* C27  The integer extract_posts returns is the number of records the
\* call appended to all_data, on every way out, the one where an
\* exception ends the call and 0 is returned included.
C27_ReturnCountsAppends ==
    /\ CountsAppends
    /\ [][(pc \in {"posts", "fallback"} /\ pc' = "returned" /\ posts_extracted' = 0)
             => (all_data' = all_data /\ posts_extracted = 0)]_vars

C27_Witness ==
    /\ pc = "returned"
    /\ pass = 2
    /\ posts_extracted = 1
    /\ Len(all_data) = 3
    /\ Len(post_elements) = 2

\* ---------------------------------------------------------------------
\* C28  In one extract_posts call the Post Position values of the
\* appended records increase strictly in append order and lie in
\* 1..max_posts: in the loop over the elements the position is the index
\* of the fragment in the deduplicated, truncated list, so rejected
\* fragments leave gaps; in the fallback the positions are 1, 2, 3, ...
C28_Positions ==
    pc \in {"posts", "returned"} /\ posts_extracted <= Len(all_data) =>
        /\ \A n \in 1..Len(CallRecords) :
              CallRecords[n].Post_Position \in 1..max_posts
        /\ \A m, n \in 1..Len(CallRecords) :
              m < n => CallRecords[m].Post_Position < CallRecords[n].Post_Position
        /\ post_elements # <<>> =>
              \A n \in 1..Len(CallRecords) :
                  /\ CallRecords[n].Post_Position <= Len(post_elements)
                  /\ PassesValidation(post_elements[CallRecords[n].Post_Position])
                  /\ <<CallRecords[n]>> =
                        extract_single_post(
                            post_elements[CallRecords[n].Post_Position],
                            profile_data, CallRecords[n].Post_Position)
        /\ post_elements = <<>> =>
              \A n \in 1..Len(CallRecords) : CallRecords[n].Post_Position = n

C28_Witness ==
    /\ pc = "returned"
    /\ max_posts = 0
    /\ posts_extracted = 1
    /\ Len(all_data) = 2
    /\ all_data[2].Post_Position = 1

\* ---------------------------------------------------------------------
\* C29  scrape_multiple_profiles attempts every profile of the list exactly
\* once and in list order even when earlier profiles fail, a failing
\* profile leaves the records already in all_data untouched, and the call
\* returns true if and only if at least one scrape_profile call returned
\* true.

\* scrape_profile is entered for the profile the loop stands at, and the
\* loop moves on by one profile when the call is over, whatever it returned
OnceInListOrder ==
    [][/\ (m_pc = "loop" /\ pc = "idle" /\ pc' # "idle") =>
              /\ m_idx \in 1..Len(profile_list)
              /\ m_idx' = m_idx
              /\ pc' = "done" \/ is_company' = Contains(Company, profile_list[m_idx])
       /\ (m_idx' # m_idx) =>
              \/ m_pc = "call" /\ m_idx' = 1
              \/ pc = "done" /\ pc' = "idle" /\ m_idx' = m_idx + 1
       /\ (pc = "done" /\ pc' = "idle") => (m_idx' = m_idx + 1)
       /\ (m_pc = "loop" /\ m_pc' = "returned") =>
              (m_idx = Len(profile_list) + 1 /\ pc = "idle")]_vars

\* a scrape_profile call that returns False appends nothing as it fails and
\* no step of it changes a record that is in all_data
FailureKeepsRecords ==
    [][/\ SubSeq(all_data', 1, Len(all_data)) = all_data
       /\ (result # "false" /\ result' = "false") => (all_data' = all_data)]_vars

\* success_count counts the calls that returned true, failed_profiles lists
\* the others in list order, and the value returned is success_count > 0
CountsSuccesses ==
    /\ [][(pc = "done" /\ pc' = "idle") =>
              /\ success_count' =
                    success_count + (IF result = "true" THEN 1 ELSE 0)
              /\ failed_profiles' =
                    IF result = "true" THEN failed_profiles
                    ELSE Append(failed_profiles, profile_list[m_idx])]_vars
    /\ [](m_pc \in {"loop", "returned"} /\ pc = "idle" =>
              success_count + Len(failed_profiles) = m_idx - 1)
    /\ [](m_pc = "returned" =>
              /\ m_idx = Len(profile_list) + 1
              /\ m_result <=> success_count >= 1)

C29_EveryProfileOnce ==
    /\ OnceInListOrder
    /\ FailureKeepsRecords
    /\ CountsSuccesses

\* the first of two listed profiles, a personal one, failed; the second, a
\* company, was scraped all the same and the call returned true
C29_Witness ==
    /\ m_pc = "returned"
    /\ Len(profile_list) = MaxProfiles
    /\ failed_profiles = <<profile_list[1]>>
    /\ success_count = 1
    /\ m_result
    /\ all_data # <<>>
    /\ ~Contains(Company, profile_list[1])
    /\ Contains(Company, profile_list[2])
====
